---- MODULE Spec2Model ----
(***************************************************************************)
(* Model of frozen_term's wezterm backend: WeztermGrid (viewport / scroll  *)
(* bookkeeping over a wezterm_term screen), SelectionState (the selection  *)
(* state machine) and WeztermPreRenderer (the row render cache).           *)
(*                                                                         *)
(* The wezterm_term screen is seen through the calls the repository makes  *)
(* on it: scrollback_rows() is Len(lines), phys_to_stable_row_index(p) is  *)
(* p + stable_row_index_offset, physical_rows is the visible row count.    *)
(***************************************************************************)
EXTENDS Integers, Sequences, FiniteSets, TLC

\* ------------------------------------------------------------------ bounds
\* usize arithmetic is done modulo UsizeModulus (2^64 in the program, 2^30
\* here so that sums stay inside TLC's integers); isize is its signed half.
UsizeModulus == 1073741824
\* rows of scrollback the terminal retains above the visible rows
\* (Config keeps wezterm_term's default capacity; the model scales it down)
ScrollbackSize == 3
\* the same capacity where the render cache is exercised: more than the cache holds
CacheScrollbackSize == 130
\* the terminal's sequence number stops the model when it reaches this
MaxSeqno == 3
\* cells in a row of output text
TextWidth == 3
\* the largest column and row of the positions the selection predicate is
\* applied to on its own
ProbeMaxX == 2
ProbeMaxY == 2
\* the column count of a narrow window, below TextWidth so that text wraps
NarrowCols == 2
\* cells of a row whose spans are built on its own
MaxSpanCells == 3
\* the Terminal widget of terminal.rs: the rows and columns it is built
\* with, the rows of scrollback it collects, and how far its sequence
\* numbers are followed
WidgetRows == 3
WidgetCols == 3
WidgetScrollback == 1
WidgetMaxSeqno == 5

\* ------------------------------------------------------- program constants
DefaultRows == 24
DefaultCols == 80
MaxCacheSize == 100

UsizeMax == UsizeModulus - 1
IsizeMin == 0 - (UsizeModulus \div 2)
IsizeMax == (UsizeModulus \div 2) - 1

Min(a, b) == IF a < b THEN a ELSE b
Max(a, b) == IF a > b THEN a ELSE b
AbsDiff(a, b) == IF a > b THEN a - b ELSE b - a
SaturatingSub(a, b) == IF a > b THEN a - b ELSE 0
WrappingSub(a, b) == (a - b + UsizeModulus) % UsizeModulus
SaturatingAddSigned(a, d) == Max(0, Min(a + d, UsizeMax))

NoPos == [x |-> 0, y |-> 0]

VARIABLES
    overflow_checks,           \* build profile: TRUE = arithmetic overflow panics
    aborted,                   \* the process panicked
    lines,                     \* screen.lines: sequence of [seqno, ncells, wrapped]
    physical_rows,             \* screen.physical_rows
    physical_cols,             \* screen.physical_cols
    stable_row_index_offset,   \* rows scrolled off the top of the scrollback
    seqno,                     \* terminal.current_seqno()
    scrollback_size,           \* the terminal's scrollback capacity (fixed at construction)
    scroll_offset,             \* WeztermGrid.scroll_offset
    size,                      \* WeztermGrid.size
    selection,                 \* WeztermGrid.selection (SelectionState)
    row_cache_start,           \* WeztermPreRenderer.row_cache_start
    cache_rows,                \* WeztermPreRenderer.cache_rows
    visible_cache_range,       \* WeztermPreRenderer.visible_cache_range
    last_call,                 \* the last call made and the state it saw
    probe                      \* a part of the program studied on its own: a call of the
                               \* selection predicate or of the span builder with its
                               \* arguments and results, or the Terminal widget of terminal.rs

vars == <<overflow_checks, aborted, scrollback_size, lines, physical_rows, physical_cols,
          stable_row_index_offset, seqno, scroll_offset, size, selection,
          row_cache_start, cache_rows, visible_cache_range, last_call, probe>>

gridVars == <<lines, physical_rows, physical_cols, stable_row_index_offset, seqno,
              scroll_offset, size, selection>>
cacheVars == <<row_cache_start, cache_rows, visible_cache_range>>

\* --------------------------------------------------------------- the screen
scrollback_rows(ls) == Len(ls)
phys_to_stable_row_index(p, off) == p + off

\* WeztermGrid::min_scroll / max_scroll on an explicit screen
min_scroll_of(ls, rows, off) ==
    SaturatingSub(phys_to_stable_row_index(scrollback_rows(ls), off), scrollback_rows(ls))

max_scroll_of(ls, rows, off) ==
    SaturatingSub(phys_to_stable_row_index(scrollback_rows(ls), off), rows)

min_scroll == min_scroll_of(lines, physical_rows, stable_row_index_offset)
max_scroll == max_scroll_of(lines, physical_rows, stable_row_index_offset)

\* The call sites hand stable (absolute) row ranges to the screen:
\* Screen::stable_row_to_phys, 0 - 1 standing for None.
stable_row_to_phys(stable, ls, off) ==
    IF stable - off < 0 \/ stable - off >= Len(ls) THEN 0 - 1 ELSE stable - off

\* Screen::stable_range as the repository calls it: the physical half-open
\* range [first, last) of a stable range; a start outside the retained rows
\* yields the first rows, an end outside them the last ones.
stable_range(start, end, ls, off) ==
    LET range_len == IF end >= start THEN end - start ELSE UsizeMax
        first == stable_row_to_phys(start, ls, off)
        last == stable_row_to_phys(Max(end - 1, IsizeMin), ls, off)
    IN  IF first < 0 THEN [first |-> 0, last |-> Min(range_len, Len(ls))]
        ELSE IF last < 0
             THEN [first |-> SaturatingSub(Len(ls) - 1, range_len), last |-> Len(ls)]
             ELSE [first |-> first, last |-> last + 1]

\* -------------------------------------------------------- selection.rs
from_visible(visible, offset) == [x |-> visible.x, y |-> visible.y + offset]

NoRange == [some |-> FALSE, start |-> 0, end |-> 0]
SomeRange(a, b) == [some |-> TRUE, start |-> a, end |-> b]
\* the half-open row range covering both rows, whichever is larger
RowSpan(a, b) == IF a > b THEN SomeRange(b, a + 1) ELSE SomeRange(a, b + 1)

SelectionState_new ==
    [step |-> "None", start |-> NoPos, end |-> NoPos, scroll_offset |-> 0]

\* start that reports no rows of the selection it clears
start_reports_nothing(sel, pos) ==
    [state |-> [sel EXCEPT !.step = "Starting",
                           !.start = from_visible(pos, sel.scroll_offset),
                           !.end = NoPos],
     invalidate |-> NoRange]

\* SelectionState::start
start(sel, pos) ==
    LET invalidate ==
            CASE sel.step = "Selecting" ->
                     RowSpan(sel.start.y, from_visible(sel.end, sel.scroll_offset).y)
              [] sel.step = "Selected" -> RowSpan(sel.start.y, sel.end.y)
              [] OTHER -> NoRange
    IN  [state |-> [sel EXCEPT !.step = "Starting",
                               !.start = from_visible(pos, sel.scroll_offset),
                               !.end = NoPos],
         invalidate |-> invalidate]

\* move_end that reports only the row the end moved to
move_end_only_new_line(sel, pos) ==
    IF sel.step \in {"Selecting", "Starting"}
    THEN LET new_line == from_visible(pos, sel.scroll_offset).y
         IN  [state |-> [sel EXCEPT !.step = "Selecting", !.end = pos],
              invalidate |-> SomeRange(new_line, new_line + 1)]
    ELSE [state |-> sel, invalidate |-> NoRange]

\* move_end that takes the new position as the anchor as well
move_end_moves_start(sel, pos) ==
    IF sel.step \in {"Selecting", "Starting"}
    THEN LET old_line == IF sel.step = "Selecting"
                         THEN from_visible(sel.end, sel.scroll_offset).y
                         ELSE sel.start.y
             new_line == from_visible(pos, sel.scroll_offset).y
             range == IF new_line > old_line
                      THEN SomeRange(old_line, new_line + 1)
                      ELSE SomeRange(new_line, old_line + 1)
         IN  [state |-> [sel EXCEPT !.step = "Selecting",
                                    !.start = from_visible(pos, sel.scroll_offset),
                                    !.end = pos],
              invalidate |-> range]
    ELSE [state |-> sel, invalidate |-> NoRange]

\* move_end that moves the end of a committed selection as well
move_end_any_step(sel, pos) ==
    IF sel.step # "None"
    THEN LET new_line == from_visible(pos, sel.scroll_offset).y
         IN  [state |-> [sel EXCEPT !.step = "Selecting", !.end = pos],
              invalidate |-> SomeRange(new_line, new_line + 1)]
    ELSE [state |-> sel, invalidate |-> NoRange]

\* SelectionState::move_end
move_end(sel, pos) ==
    IF sel.step \in {"Selecting", "Starting"}
    THEN LET old_line == IF sel.step = "Selecting"
                         THEN from_visible(sel.end, sel.scroll_offset).y
                         ELSE sel.start.y
             new_line == from_visible(pos, sel.scroll_offset).y
             range == IF new_line > old_line
                      THEN SomeRange(old_line, new_line + 1)
                      ELSE SomeRange(new_line, old_line + 1)
         IN  [state |-> [sel EXCEPT !.step = "Selecting", !.end = pos],
              invalidate |-> range]
    ELSE [state |-> sel, invalidate |-> NoRange]

\* finish that commits a pointer-down without a move as a selection
finish_commits_click(sel) ==
    CASE sel.step = "Selecting" ->
             [sel EXCEPT !.step = "Selected",
                         !.end = from_visible(sel.end, sel.scroll_offset)]
      [] sel.step = "Starting" ->
             [sel EXCEPT !.step = "Selected", !.end = sel.start]
      [] OTHER -> sel

\* SelectionState::finish
finish(sel) ==
    CASE sel.step = "Selecting" ->
             [sel EXCEPT !.step = "Selected",
                         !.end = from_visible(sel.end, sel.scroll_offset)]
      [] sel.step = "Starting" ->
             [sel EXCEPT !.step = "None", !.start = NoPos, !.end = NoPos]
      [] OTHER -> sel

\* set_scroll that reports only the row the end moved to
set_scroll_reports_new_row(sel, offset) ==
    LET range ==
            IF sel.step = "Selecting"
            THEN LET old == from_visible(sel.end, sel.scroll_offset).y
                     new == from_visible(sel.end, offset).y
                 IN  IF old = new THEN NoRange ELSE SomeRange(new, new + 1)
            ELSE NoRange
    IN  [state |-> [sel EXCEPT !.scroll_offset = offset], invalidate |-> range]

\* set_scroll that reports the rows and does not store the offset
set_scroll_keeps_offset(sel, offset) ==
    LET range ==
            IF sel.step = "Selecting"
            THEN LET old == from_visible(sel.end, sel.scroll_offset).y
                     new == from_visible(sel.end, offset).y
                 IN  IF old = new THEN NoRange
                     ELSE IF old > new THEN SomeRange(new, old + 1)
                     ELSE SomeRange(old, new + 1)
            ELSE NoRange
    IN  [state |-> sel, invalidate |-> range]

\* set_scroll that moves the start anchor along with the view
set_scroll_shifts_anchor(sel, offset) ==
    LET range ==
            IF sel.step = "Selecting"
            THEN LET old == from_visible(sel.end, sel.scroll_offset).y
                     new == from_visible(sel.end, offset).y
                 IN  IF old = new THEN NoRange
                     ELSE IF old > new THEN SomeRange(new, old + 1)
                     ELSE SomeRange(old, new + 1)
            ELSE NoRange
    IN  [state |-> [sel EXCEPT !.scroll_offset = offset,
                               !.start = [x |-> sel.start.x,
                                          y |-> Max(sel.start.y + offset - sel.scroll_offset, 0)]],
         invalidate |-> range]

\* SelectionState::set_scroll
set_scroll(sel, offset) ==
    LET range ==
            IF sel.step = "Selecting"
            THEN LET old == from_visible(sel.end, sel.scroll_offset).y
                     new == from_visible(sel.end, offset).y
                 IN  IF old = new THEN NoRange
                     ELSE IF old > new THEN SomeRange(new, old + 1)
                     ELSE SomeRange(old, new + 1)
            ELSE NoRange
    IN  [state |-> [sel EXCEPT !.scroll_offset = offset], invalidate |-> range]

\* SelectionState::is_active
is_active(sel) == sel.step \in {"Selecting", "Starting"}

NoSelection == [some |-> FALSE, start |-> NoPos, end |-> NoPos]

\* Selection::new that keeps start and end as given
Selection_new_unordered(s, e) == [some |-> TRUE, start |-> s, end |-> e]

\* Selection::new: start and end ordered by (y, x)
Selection_new(s, e) ==
    IF s.y < e.y \/ (s.y = e.y /\ s.x <= e.x)
    THEN [some |-> TRUE, start |-> s, end |-> e]
    ELSE [some |-> TRUE, start |-> e, end |-> s]

\* SelectionState::get_selection
get_selection(sel) ==
    CASE sel.step = "Selecting" ->
             Selection_new(sel.start, from_visible(sel.end, sel.scroll_offset))
      [] sel.step = "Selected" -> Selection_new(sel.start, sel.end)
      [] OTHER -> NoSelection

\* is_selected that leaves the selection's last column out
is_selected_end_exclusive(sel, pos) ==
    IF ~sel.some THEN FALSE
    ELSE IF pos.y < sel.start.y \/ pos.y > sel.end.y THEN FALSE
    ELSE IF pos.y = sel.start.y /\ pos.y = sel.end.y
         THEN pos.x >= sel.start.x /\ pos.x < sel.end.x
    ELSE IF pos.y = sel.start.y THEN pos.x >= sel.start.x
    ELSE IF pos.y = sel.end.y THEN pos.x < sel.end.x
    ELSE TRUE

\* selection::is_selected
is_selected(sel, pos) ==
    IF ~sel.some THEN FALSE
    ELSE IF pos.y < sel.start.y \/ pos.y > sel.end.y THEN FALSE
    ELSE IF pos.y = sel.start.y /\ pos.y = sel.end.y
         THEN pos.x >= sel.start.x /\ pos.x <= sel.end.x
    ELSE IF pos.y = sel.start.y THEN pos.x >= sel.start.x
    ELSE IF pos.y = sel.end.y THEN pos.x <= sel.end.x
    ELSE TRUE

\* terminal.rs, SelectionState::is_position_selected: the same predicate on
\* the older widget's state (None, Selecting{start, current}, Selected{start,
\* end}, all positions absolute), the ordering done in place
is_position_selected(st, pos) ==
    IF st.step = "None" THEN FALSE
    ELSE LET ordered == st.start.y < st.end.y
                            \/ (st.start.y = st.end.y /\ st.start.x <= st.end.x)
             start_pos == IF ordered THEN st.start ELSE st.end
             end_pos == IF ordered THEN st.end ELSE st.start
         IN  IF pos.y < start_pos.y \/ pos.y > end_pos.y THEN FALSE
             ELSE IF pos.y = start_pos.y /\ pos.y = end_pos.y
                  THEN pos.x >= start_pos.x /\ pos.x <= end_pos.x
             ELSE IF pos.y = start_pos.y THEN pos.x >= start_pos.x
             ELSE IF pos.y = end_pos.y THEN pos.x <= end_pos.x
             ELSE TRUE

\* selection::is_maybe_selected, the predicate the pre-renderer imports: the
\* selection predicate on an optional selection
is_maybe_selected(sel, pos) == is_selected(sel, pos)

\* -------------------------------------------------------- wezterm.rs
\* The grid as one value: the WeztermGrid fields and the screen behind them.
Grid ==
    [lines |-> lines, physical_rows |-> physical_rows, physical_cols |-> physical_cols,
     stable_row_index_offset |-> stable_row_index_offset, seqno |-> seqno,
     scrollback_size |-> scrollback_size,
     scroll_offset |-> scroll_offset, size |-> size, selection |-> selection]

g_min_scroll(g) == min_scroll_of(g.lines, g.physical_rows, g.stable_row_index_offset)
g_max_scroll(g) == max_scroll_of(g.lines, g.physical_rows, g.stable_row_index_offset)

\* WeztermGrid::invalidate_lines
invalidate_lines(g, invalidate) ==
    LET sq == g.seqno + 1
        s == Max(invalidate.start, g_min_scroll(g))
        e == Min(invalidate.end, g_max_scroll(g) + g.physical_rows)
        phys == stable_range(s, e, g.lines, g.stable_row_index_offset)
    IN  [g EXCEPT !.seqno = sq,
                  !.lines = [i \in 1..Len(g.lines) |->
                                IF phys.first < i /\ i <= phys.last
                                THEN [g.lines[i] EXCEPT !.seqno = sq]
                                ELSE g.lines[i]]]

\* update_scroll without the lower clamp
update_scroll_no_floor(g, new_offset) ==
    LET offset == Min(new_offset, g_max_scroll(g))
        r == set_scroll(g.selection, offset)
        g1 == [g EXCEPT !.scroll_offset = offset, !.selection = r.state]
    IN  IF r.invalidate.some THEN invalidate_lines(g1, r.invalidate) ELSE g1

\* WeztermGrid::update_scroll
update_scroll(g, new_offset) ==
    LET offset == Max(Min(new_offset, g_max_scroll(g)), g_min_scroll(g))
        r == set_scroll(g.selection, offset)
        g1 == [g EXCEPT !.scroll_offset = offset, !.selection = r.state]
    IN  IF r.invalidate.some THEN invalidate_lines(g1, r.invalidate) ELSE g1

\* A screen line as the repository reads it: its change sequence number
\* (current_seqno), how many cells visible_cells() yields, and whether the
\* line continues on the next one (it was wrapped at the right margin).
Line(sq, ncells, wrapped) == [seqno |-> sq, ncells |-> ncells, wrapped |-> wrapped]
BlankLine(sq) == Line(sq, 0, FALSE)

\* wezterm_term::Terminal::advance_bytes as the grid observes it: the
\* sequence number advances; text that scrolls n rows in pushes n new lines
\* and drops the oldest beyond the scrollback capacity, counting them in
\* stable_row_index_offset; text that does not scroll rewrites the last line;
\* an erase-scrollback sequence drops every line above the visible rows.
terminal_advance_bytes(g, bytes) ==
    LET sq == g.seqno + 1
        len == Len(g.lines)
        text == Line(sq, Min(bytes.width, g.physical_cols), FALSE)
        fresh == [i \in 1..bytes.n |-> text]
        capacity == g.physical_rows + g.scrollback_size
        kept == IF bytes.n = 0 THEN len ELSE Min(len + bytes.n, Max(capacity, 1))
        dropped == len + bytes.n - kept
        erased == SaturatingSub(len, g.physical_rows)
    IN  CASE bytes.kind = "erase_scrollback" ->
                 [g EXCEPT !.seqno = sq,
                           !.lines = SubSeq(g.lines, erased + 1, len),
                           !.stable_row_index_offset = @ + erased]
          [] bytes.n = 0 ->
                 [g EXCEPT !.seqno = sq,
                           !.lines = [i \in 1..len |-> IF i = len THEN text ELSE g.lines[i]]]
          [] OTHER ->
                 [g EXCEPT !.seqno = sq,
                           !.lines = SubSeq(g.lines \o fresh, dropped + 1, len + bytes.n),
                           !.stable_row_index_offset = @ + dropped]

\* One logical line of `total` cells laid out on rows of `cols` cells.
split_line(total, cols, sq) ==
    LET n == Max(1, (total + cols - 1) \div cols)
    IN  [j \in 1..n |-> IF j < n THEN Line(sq, cols, TRUE)
                                 ELSE Line(sq, total - (n - 1) * cols, FALSE)]

\* Screen::rewrap_lines: wrapped lines are joined with their successors and
\* split again at the new width; every line is touched.
RECURSIVE rewrap_lines(_, _, _, _, _)
rewrap_lines(ls, i, acc, cols, sq) ==
    IF i > Len(ls)
    THEN IF acc > 0 THEN split_line(acc, cols, sq) ELSE <<>>
    ELSE IF ls[i].wrapped
         THEN rewrap_lines(ls, i + 1, acc + ls[i].ncells, cols, sq)
         ELSE split_line(acc + ls[i].ncells, cols, sq) \o rewrap_lines(ls, i + 1, 0, cols, sq)

\* trailing blank lines are popped while more lines than rows remain
RECURSIVE prune_blank_tail(_, _)
prune_blank_tail(ls, rows) ==
    IF Len(ls) > rows /\ Len(ls) > 0 /\ ls[Len(ls)].ncells = 0
    THEN prune_blank_tail(SubSeq(ls, 1, Len(ls) - 1), rows)
    ELSE ls

\* wezterm_term::Terminal::resize as the grid observes it: a changed column
\* count rewraps the lines, trailing blank lines beyond the new row count
\* are popped, and blank lines are pushed until there is one line per row.
terminal_resize(g, new_size) ==
    LET sq == g.seqno + 1
        ls0 == IF g.physical_cols # new_size.cols
               THEN rewrap_lines(g.lines, 1, 0, new_size.cols, sq)
               ELSE g.lines
        ls1 == prune_blank_tail(ls0, new_size.rows)
        ls2 == [i \in 1..Max(Len(ls1), new_size.rows) |->
                   IF i <= Len(ls1) THEN ls1[i] ELSE BlankLine(sq)]
    IN  [g EXCEPT !.seqno = sq,
                  !.physical_rows = new_size.rows,
                  !.physical_cols = new_size.cols,
                  !.lines = ls2]

\* A call either returns a grid or panics and leaves the grid as it was.
Returned(g) == [grid |-> g, panicked |-> FALSE]
Panicked(g) == [grid |-> g, panicked |-> TRUE]

\* advance_bytes that never follows the newest row
advance_bytes_no_follow(g, bytes) ==
    Returned(update_scroll(terminal_advance_bytes(g, bytes), g.scroll_offset))

\* advance_bytes that always jumps to the newest row
advance_bytes_always_follow(g, bytes) ==
    LET g1 == terminal_advance_bytes(g, bytes)
    IN  Returned(update_scroll(g1, g_max_scroll(g1)))

\* WeztermGrid::advance_bytes
advance_bytes(g, bytes) ==
    LET auto_scroll == g.scroll_offset = g_max_scroll(g)
        g1 == terminal_advance_bytes(g, bytes)
    IN  IF auto_scroll
        THEN Returned(update_scroll(g1, g_max_scroll(g1)))
        ELSE Returned(update_scroll(g1, g.scroll_offset))

\* resize that does not record the new size in the grid
resize_size_not_stored(g, new_size, checks) ==
    LET diff == AbsDiff(g.size.rows, new_size.rows)
        grows == new_size.rows > g.size.rows
        new_scroll == IF grows
                      THEN WrappingSub(g.scroll_offset, diff)
                      ELSE g.scroll_offset + diff
        g1 == terminal_resize(g, new_size)
    IN  IF grows /\ g.scroll_offset < diff /\ checks
        THEN Panicked(g)
        ELSE Returned(update_scroll(g1, new_scroll))

\* WeztermGrid::resize; `checks` is the build's overflow-checks setting
resize(g, new_size, checks) ==
    LET diff == AbsDiff(g.size.rows, new_size.rows)
        grows == new_size.rows > g.size.rows
        new_scroll == IF grows
                      THEN WrappingSub(g.scroll_offset, diff)
                      ELSE g.scroll_offset + diff
        g1 == terminal_resize(g, new_size)
        g2 == [g1 EXCEPT !.size = new_size]
    IN  IF grows /\ g.scroll_offset < diff /\ checks
        THEN Panicked(g)
        ELSE Returned(update_scroll(g2, new_scroll))

\* press_key that sends the key and leaves the view where it is
press_key_keeps_view(g, mapped) == Returned(g)

\* WeztermGrid::press_key; `mapped` is whether transform_key returns Some
press_key(g, mapped) ==
    IF mapped THEN Returned(update_scroll(g, g_max_scroll(g))) ELSE Returned(g)

\* WeztermGrid::paste: send_paste writes to the pty, the grid is untouched
paste(g) == Returned(g)

\* scroll that adds the delta instead of subtracting it
scroll_not_negated(g, delta, checks) ==
    Returned(update_scroll(g,
        Min(SaturatingAddSigned(g.scroll_offset, delta), g_max_scroll(g))))

\* WeztermGrid::scroll
scroll(g, delta, checks) ==
    LET negated == IF delta = IsizeMin THEN IsizeMin ELSE 0 - delta
    IN  IF delta = IsizeMin /\ checks
        THEN Panicked(g)
        ELSE Returned(update_scroll(g,
                 Min(SaturatingAddSigned(g.scroll_offset, negated), g_max_scroll(g))))

\* WeztermGrid::start_selection
start_selection(g, pos) ==
    LET r == start(g.selection, pos)
        g1 == [g EXCEPT !.selection = r.state]
    IN  Returned(IF r.invalidate.some THEN invalidate_lines(g1, r.invalidate) ELSE g1)

\* WeztermGrid::move_selection
move_selection(g, pos) ==
    LET r == move_end(g.selection, pos)
        g1 == [g EXCEPT !.selection = r.state]
    IN  Returned(IF r.invalidate.some THEN invalidate_lines(g1, r.invalidate) ELSE g1)

\* WeztermGrid::end_selection
end_selection(g) == Returned([g EXCEPT !.selection = finish(g.selection)])

\* WeztermGrid::get_scroll / available_lines / currently_selecting
get_scroll(g) == g.scroll_offset
available_lines(g) == scrollback_rows(g.lines)
currently_selecting(g) == is_active(g.selection)

\* Screen::lines_in_phys_range as the grid calls it: skip(start) and
\* take(end - start) over the lines; on a reversed range the subtraction
\* overflows, which panics under overflow checks and otherwise wraps to a
\* count that takes every line from start on
lines_in_phys_range(ls, phys) ==
    IF phys.last >= phys.first
    THEN SubSeq(ls, phys.first + 1, Min(phys.last, Len(ls)))
    ELSE SubSeq(ls, phys.first + 1, Len(ls))

\* WeztermGrid::screen_lines: the lines of a stable row range
screen_lines(g, range_start, range_end) ==
    lines_in_phys_range(g.lines,
        stable_range(range_start, range_end, g.lines, g.stable_row_index_offset))

\* screen_lines was given a range whose physical range is reversed
screen_lines_overflows(g, range_start, range_end) ==
    LET phys == stable_range(range_start, range_end, g.lines, g.stable_row_index_offset)
    IN  phys.last < phys.first

\* WeztermGrid::selected_text, the loop: one entry per line screen_lines
\* returned, labelled range.start + offset as the code labels it, with the
\* columns of the line's cells that is_selected accepts under that label
\* (`phys` records which line was read)
clipboard(g) ==
    LET sel == get_selection(g.selection)
        range_start == sel.start.y
        range_end == Min(sel.end.y + 1, scrollback_rows(g.lines))
        phys == stable_range(range_start, range_end, g.lines, g.stable_row_index_offset)
        read == screen_lines(g, range_start, range_end)
    IN  [offset \in 1..Len(read) |->
            [row |-> range_start + offset - 1,
             phys |-> phys.first + offset - 1,
             cells |-> {x \in 0..(read[offset].ncells - 1) :
                           is_selected(sel, [x |-> x, y |-> range_start + offset - 1])}]]

\* String::trim on the clipboard: the cells are text, so what goes are the
\* line breaks of the leading and trailing lines without a selected cell
trim(rows) ==
    LET filled == {i \in 1..Len(rows) : rows[i].cells # {}}
    IN  IF filled = {} THEN <<>>
        ELSE SubSeq(rows, CHOOSE i \in filled : \A j \in filled : i <= j,
                          CHOOSE i \in filled : \A j \in filled : i >= j)

\* WeztermGrid::selected_text: None without a selection; else the trimmed
\* clipboard as its lines (each the columns of the cells appended), None
\* when it is empty. `overflowed`: screen_lines overflowed on the way, the
\* result is the one of a build without overflow checks.
selected_text(g) ==
    LET sel == get_selection(g.selection)
        text == [i \in 1..Len(trim(clipboard(g))) |-> trim(clipboard(g))[i].cells]
    IN  IF ~sel.some
        THEN [some |-> FALSE, text |-> <<>>, overflowed |-> FALSE]
        ELSE [some |-> text # <<>>,
              text |-> text,
              overflowed |-> screen_lines_overflows(g, sel.start.y,
                                 Min(sel.end.y + 1, scrollback_rows(g.lines)))]

\* -------------------------------------------------------- prerenderer.rs
\* ParagraphRow::default: a placeholder that has never been rendered
\* (`renders` counts how often the row loop has written the entry)
ParagraphRow_default ==
    [last_update_seqno |-> 0, renders |-> 0,
     cached |-> [some |-> FALSE, row |-> 0, line |-> BlankLine(0), selected |-> {}]]

placeholders(n) == [i \in 1..n |-> ParagraphRow_default]

\* What the row loop builds for one line: the spans of the line's cells, each
\* cell highlighted or not by the selection predicate; None for a line
\* without cells. `row` and `line` record what the paragraph was built from.
render_row(line, index, sel) ==
    IF line.ncells = 0
    THEN [some |-> FALSE, row |-> 0, line |-> BlankLine(0), selected |-> {}]
    ELSE [some |-> TRUE, row |-> index, line |-> line,
          selected |-> {x \in 0..(line.ncells - 1) :
                           is_maybe_selected(sel, [x |-> x, y |-> index])}]

\* push_span: a span of the text collected so far, none for an empty text
\* (`selected` stands for the reversed colours of a selected span)
push_span(spans, text, attributes, is_current_selected) ==
    IF text = <<>> THEN spans
    ELSE Append(spans, [text |-> text, attributes |-> attributes,
                        selected |-> is_current_selected])

\* update, the cell loop from cell i on: `cells` holds the attributes of the
\* row's cells, a cell's text is written as its column; `w` is the text,
\* attributes and selection flag of the span being collected and the spans
\* pushed so far
RECURSIVE span_walk_attrs_only(_, _, _, _, _)
span_walk_attrs_only(cells, index, sel, i, w) ==
    IF i > Len(cells)
    THEN push_span(w.spans, w.current_text, w.current_attrs, w.is_current_selected)
    ELSE LET cell_selected == is_maybe_selected(sel, [x |-> i - 1, y |-> index])
         IN  IF cells[i] # w.current_attrs
             THEN span_walk_attrs_only(cells, index, sel, i + 1,
                      [spans |-> push_span(w.spans, w.current_text, w.current_attrs,
                                           w.is_current_selected),
                       current_text |-> <<i - 1>>,
                       current_attrs |-> cells[i],
                       is_current_selected |-> cell_selected])
             ELSE span_walk_attrs_only(cells, index, sel, i + 1,
                      [w EXCEPT !.current_text = Append(@, i - 1)])

RECURSIVE span_walk(_, _, _, _, _)
span_walk(cells, index, sel, i, w) ==
    IF i > Len(cells)
    THEN push_span(w.spans, w.current_text, w.current_attrs, w.is_current_selected)
    ELSE LET cell_selected == is_maybe_selected(sel, [x |-> i - 1, y |-> index])
         IN  IF cells[i] # w.current_attrs \/ w.is_current_selected # cell_selected
             THEN span_walk(cells, index, sel, i + 1,
                      [spans |-> push_span(w.spans, w.current_text, w.current_attrs,
                                           w.is_current_selected),
                       current_text |-> <<i - 1>>,
                       current_attrs |-> cells[i],
                       is_current_selected |-> cell_selected])
             ELSE span_walk(cells, index, sel, i + 1,
                      [w EXCEPT !.current_text = Append(@, i - 1)])

\* row loop that starts a span only where the attributes change
row_spans_attrs_only(cells, index, sel) ==
    span_walk_attrs_only(cells, index, sel, 1,
        [spans |-> <<>>, current_text |-> <<>>, current_attrs |-> "default",
         is_current_selected |-> FALSE])

\* update, the spans of one row that is rendered: the walk starts with an
\* empty text, CellAttributes::default() and is_current_selected = false
row_spans(cells, index, sel) ==
    span_walk(cells, index, sel, 1,
        [spans |-> <<>>, current_text |-> <<>>, current_attrs |-> "default",
         is_current_selected |-> FALSE])

\* update, growing at the back: the entries that survive the eviction
evict_wrong_end(rows, missing_space) ==
    IF missing_space >= Len(rows) THEN <<>>
    ELSE SubSeq(rows, 1, Len(rows) - missing_space)

evict_front(rows, missing_space) ==
    IF missing_space >= Len(rows) THEN <<>>
    ELSE SubSeq(rows, missing_space + 1, Len(rows))

\* update, growing at the front, with the entries taken from the front
evict_back_from_front(rows, missing_space) ==
    IF missing_space >= Len(rows) THEN <<>>
    ELSE SubSeq(rows, missing_space + 1, Len(rows))

\* update, growing at the front: the entries that survive the eviction
evict_back(rows, missing_space) ==
    IF missing_space >= Len(rows) THEN <<>>
    ELSE SubSeq(rows, 1, Len(rows) - missing_space)

\* update, ring alignment: the ring after it has been grown to the range
align_cache(c, range_start, range_end) ==
    LET row_cache_end == c.row_cache_start + Len(c.cache_rows)
        free_space == WrappingSub(MaxCacheSize, Len(c.cache_rows))
        back == range_end > row_cache_end
        missing_b == range_end - row_cache_end
        space_b == SaturatingSub(missing_b, free_space)
        rows1 == IF back
                 THEN evict_front(c.cache_rows, space_b) \o placeholders(missing_b)
                 ELSE c.cache_rows
        start1 == IF back THEN c.row_cache_start + space_b ELSE c.row_cache_start
        front == range_start < start1
        missing_f == start1 - range_start
        space_f == SaturatingSub(missing_f, free_space)
        rows2 == IF front
                 THEN placeholders(missing_f) \o evict_back(rows1, space_f)
                 ELSE rows1
        start2 == IF front THEN start1 - space_f ELSE start1
    IN  [row_cache_start |-> start2,
         cache_rows |-> rows2,
         visible_cache_range |-> [start |-> WrappingSub(range_start, start2),
                                  end |-> WrappingSub(range_end, start2)],
         \* usize arithmetic that went below zero on the way
         overflowed |-> \/ Len(c.cache_rows) > MaxCacheSize
                        \/ range_start < start2
                        \/ range_end < start2]

\* row loop that renders every line it is given, whatever its sequence number
render_rows_always(c, g, range_start, visible, sel) ==
    [c EXCEPT !.cache_rows =
        [i \in 1..Len(c.cache_rows) |->
            LET offset == c.row_cache_start + (i - 1) - range_start
            IN  IF offset >= 0 /\ offset < Len(visible)
                THEN [last_update_seqno |-> visible[offset + 1].seqno,
                      renders |-> c.cache_rows[i].renders + 1,
                      cached |-> render_row(visible[offset + 1], range_start + offset, sel)]
                ELSE c.cache_rows[i]]]

\* row loop that stores the new sequence number and keeps the old paragraph
render_rows_seqno_only(c, g, range_start, visible, sel) ==
    [c EXCEPT !.cache_rows =
        [i \in 1..Len(c.cache_rows) |->
            LET offset == c.row_cache_start + (i - 1) - range_start
            IN  IF offset >= 0 /\ offset < Len(visible)
                   /\ visible[offset + 1].seqno > c.cache_rows[i].last_update_seqno
                THEN [c.cache_rows[i] EXCEPT !.last_update_seqno = visible[offset + 1].seqno,
                                             !.renders = @ + 1]
                ELSE c.cache_rows[i]]]

\* update, row loop: every line the grid returns is looked up at
\* index - row_cache_start and re-rendered when its sequence number is newer
render_rows(c, g, range_start, visible, sel) ==
    [c EXCEPT !.cache_rows =
        [i \in 1..Len(c.cache_rows) |->
            LET offset == c.row_cache_start + (i - 1) - range_start
            IN  IF offset >= 0 /\ offset < Len(visible)
                   /\ visible[offset + 1].seqno > c.cache_rows[i].last_update_seqno
                THEN [last_update_seqno |-> visible[offset + 1].seqno,
                      renders |-> c.cache_rows[i].renders + 1,
                      cached |-> render_row(visible[offset + 1], range_start + offset, sel)]
                ELSE c.cache_rows[i]]]

\* WeztermPreRenderer::update; `checks` is the build's overflow-checks setting
update(c, g, checks) ==
    LET range_start == g.scroll_offset
        range_end == g.scroll_offset + g.physical_rows
        sel == get_selection(g.selection)
        a == align_cache(c, range_start, range_end)
        c1 == [row_cache_start |-> a.row_cache_start, cache_rows |-> a.cache_rows,
               visible_cache_range |-> a.visible_cache_range]
        visible == screen_lines(g, range_start, range_end)
        \* cache_rows[cache_index] with an index outside the ring
        out_of_range == \E offset \in 0..(Len(visible) - 1) :
                            \/ range_start + offset < c1.row_cache_start
                            \/ range_start + offset >= c1.row_cache_start + Len(c1.cache_rows)
    IN  IF (a.overflowed /\ checks) \/ out_of_range
           \/ (checks /\ screen_lines_overflows(g, range_start, range_end))
        THEN [cache |-> c, panicked |-> TRUE]
        ELSE [cache |-> render_rows(c1, g, range_start, visible, sel), panicked |-> FALSE]

\* visible_rows that iterates the ring from its first entry
visible_rows_from_front(c) ==
    LET n == c.visible_cache_range.end - c.visible_cache_range.start
    IN  IF n < 0 \/ n > Len(c.cache_rows)
        THEN [items |-> <<>>, panicked |-> TRUE]
        ELSE [items |-> [i \in 1..n |-> c.cache_rows[i].cached], panicked |-> FALSE]

\* WeztermPreRenderer::visible_rows: the cached paragraphs of
\* cache_rows.range(visible_cache_range), one Option per entry; VecDeque::range
\* panics on a range that is reversed or ends past the ring
visible_rows(c) ==
    LET first == c.visible_cache_range.start
        last == c.visible_cache_range.end
    IN  IF first > last \/ last > Len(c.cache_rows)
        THEN [items |-> <<>>, panicked |-> TRUE]
        ELSE [items |-> [i \in 1..(last - first) |-> c.cache_rows[first + i].cached],
              panicked |-> FALSE]

\* -------------------------------------------------------- terminal.rs
\* The Terminal widget as one value: its wezterm_term screen (lines,
\* seqno, rows), its scroll position, selection state and formatted rows.
\* `rendered` records the viewport rows the last update_formatted_rows
\* rendered; a formatted row records, for its spans, the absolute line its
\* cells were tested at and the columns of the spans pushed as selected.
FormattedRow_default == [last_update_seqno |-> 0, line |-> 0, selected |-> {}]

\* Terminal::new
Terminal_new(rows) ==
    [op |-> "new",
     lines |-> [i \in 1..rows |-> BlankLine(0)],
     seqno |-> 0,
     rows |-> rows,
     selection_state |-> [step |-> "None", start |-> NoPos, end |-> NoPos],
     formatted_rows |-> <<>>,
     first_row_scrollback_pos |-> 0,
     last_span_update |-> 0,
     last_span_update_scroll_pos |-> 0,
     scroll_pos |-> 0,
     rendered |-> {}]

\* GridPosition::into_selection_position
into_selection_position(position, horizontal_offset) ==
    [x |-> position.x, y |-> position.y + horizontal_offset]

\* Terminal::pos_conversion
pos_conversion(w, position) ==
    into_selection_position(position, Len(w.lines) - w.rows - w.scroll_pos)

\* terminal.rs, SelectionState::start
SelectionState_start(st, position) ==
    [step |-> "Selecting", start |-> position, end |-> position]

\* terminal.rs, SelectionState::move_mouse
move_mouse(st, position) ==
    IF st.step = "Selecting" THEN [st EXCEPT !.end = position] ELSE st

\* terminal.rs, SelectionState::stop
stop(st) ==
    IF st.step = "Selecting"
    THEN IF st.start # st.end
         THEN [st EXCEPT !.step = "Selected"]
         ELSE [step |-> "None", start |-> NoPos, end |-> NoPos]
    ELSE st

\* update_formatted_rows, the cell loop of one row from column x on: a span
\* is pushed and is_current_selected replaced whenever the cell's selection
\* differs from it; `acc` holds the columns of the spans pushed as selected
RECURSIVE format_cells(_, _, _, _, _, _)
format_cells(st, absolute_line, ncells, x, is_current_selected, acc) ==
    IF x >= ncells
    THEN [selected |-> acc, is_current_selected |-> is_current_selected]
    ELSE LET is_sel == is_position_selected(st, [x |-> x, y |-> absolute_line])
         IN  format_cells(st, absolute_line, ncells, x + 1, is_sel,
                          IF is_sel THEN acc \cup {x} ELSE acc)

\* update_formatted_rows, the row loop from viewport row k on: term_lines
\* zipped with the formatted rows; absolute_line and is_current_selected
\* are declared before the loop and live across the rows
RECURSIVE format_rows(_, _, _, _, _, _)
format_rows(term_lines, st, force, sq, k, it) ==
    IF k > Min(Len(term_lines), Len(it.rows))
    THEN it
    ELSE IF term_lines[k].seqno # it.rows[k].last_update_seqno \/ force
         THEN LET cells == format_cells(st, it.absolute_line, term_lines[k].ncells, 0,
                                        it.is_current_selected, {})
              IN  format_rows(term_lines, st, force, sq, k + 1,
                      [rows |-> [it.rows EXCEPT ![k] =
                                    [last_update_seqno |-> sq,
                                     line |-> it.absolute_line,
                                     selected |-> cells.selected]],
                       absolute_line |-> it.absolute_line + 1,
                       is_current_selected |-> cells.is_current_selected,
                       rendered |-> it.rendered \cup {k}])
         ELSE format_rows(term_lines, st, force, sq, k + 1, it)

\* Terminal::update_formatted_rows
update_formatted_rows(w, force) ==
    LET sq == IF force THEN w.seqno + 1 ELSE w.seqno
        scroll_pos == Min(w.scroll_pos, SaturatingSub(Len(w.lines), w.rows))
        needs_row_update == w.last_span_update # sq
                                \/ scroll_pos # w.last_span_update_scroll_pos
        visible_rows_end == SaturatingSub(Len(w.lines), scroll_pos)
        visible_rows_start == SaturatingSub(visible_rows_end, w.rows)
        term_lines == lines_in_phys_range(w.lines,
                          [first |-> visible_rows_start, last |-> visible_rows_end])
        range_start == visible_rows_start
        top == IF w.first_row_scrollback_pos > range_start
               THEN [i \in 1..(w.first_row_scrollback_pos - range_start) |->
                        FormattedRow_default] \o w.formatted_rows
               ELSE SubSeq(w.formatted_rows,
                           range_start - w.first_row_scrollback_pos + 1,
                           Len(w.formatted_rows))
        rows == [i \in 1..w.rows |->
                    IF i <= Len(top) THEN top[i] ELSE FormattedRow_default]
        it == format_rows(term_lines, w.selection_state, force, sq, 1,
                  [rows |-> rows, absolute_line |-> range_start,
                   is_current_selected |-> FALSE, rendered |-> {}])
    IN  IF needs_row_update \/ force
        THEN [w EXCEPT !.seqno = sq,
                       !.scroll_pos = scroll_pos,
                       !.last_span_update = sq,
                       !.last_span_update_scroll_pos = scroll_pos,
                       !.first_row_scrollback_pos = range_start,
                       !.formatted_rows = it.rows,
                       !.rendered = it.rendered]
        ELSE [w EXCEPT !.seqno = sq, !.scroll_pos = scroll_pos, !.rendered = {}]

\* Terminal::get_selected_text: the positions of the characters pushed to
\* the string (a line's text is indexed by column)
get_selected_text(w) ==
    LET st == w.selection_state
        moved == [x |-> st.end.x + 1, y |-> st.end.y]
        ordered == st.start.y < moved.y
                       \/ (st.start.y = moved.y /\ st.start.x <= moved.x)
        start_pos == IF ordered THEN st.start ELSE moved
        end_pos == IF ordered THEN moved ELSE st.start
        term_lines == lines_in_phys_range(w.lines,
                          [first |-> start_pos.y, last |-> end_pos.y + 1])
        from(line_y, len) ==
            IF line_y = start_pos.y THEN Min(start_pos.x, len) ELSE 0
        to(line_y, len) ==
            IF line_y = end_pos.y THEN Min(end_pos.x, len) ELSE len
    IN  IF st.step = "None"
        THEN [some |-> FALSE, positions |-> {}]
        ELSE [some |-> TRUE,
              positions |->
                  UNION {{[x |-> x, y |-> start_pos.y + line_idx - 1] :
                             x \in from(start_pos.y + line_idx - 1, term_lines[line_idx].ncells)
                                    ..(to(start_pos.y + line_idx - 1,
                                          term_lines[line_idx].ncells) - 1)} :
                         line_idx \in 1..Len(term_lines)}]

\* ------------------------------------------------------------ the calls
\* What a call saw when it was made, kept to state what it did.
Call(op, arg) ==
    [op |-> op, arg |-> arg,
     \* the call before this one was the same call with the same argument
     repeated |-> (~aborted /\ last_call.op = op /\ last_call.arg = arg),
     pre_step |-> selection.step,
     pre_offset |-> scroll_offset, pre_min |-> min_scroll, pre_max |-> max_scroll,
     pre_rows |-> physical_rows, pre_end |-> stable_row_index_offset + Len(lines)]

\* The grid after a call: the call's result, or a panic that ends the run.
Commit(r, op, arg) ==
    /\ aborted' = r.panicked
    /\ lines' = r.grid.lines
    /\ physical_rows' = r.grid.physical_rows
    /\ physical_cols' = r.grid.physical_cols
    /\ stable_row_index_offset' = r.grid.stable_row_index_offset
    /\ seqno' = r.grid.seqno
    /\ scroll_offset' = r.grid.scroll_offset
    /\ size' = r.grid.size
    /\ selection' = r.grid.selection
    /\ last_call' = Call(op, arg)
    /\ UNCHANGED <<overflow_checks, scrollback_size, probe>>

Running == ~aborted /\ seqno < MaxSeqno

\* inputs
Outputs ==
    [kind : {"text"}, n : {0, 1, 5}, width : {TextWidth}]
        \cup {[kind |-> "erase_scrollback", n |-> 0, width |-> 0]}
Sizes ==
    {[rows |-> DefaultRows - 2, cols |-> DefaultCols], [rows |-> DefaultRows, cols |-> DefaultCols],
     [rows |-> DefaultRows, cols |-> NarrowCols], [rows |-> DefaultRows + 2, cols |-> NarrowCols]}
Deltas == {IsizeMin, 0 - 30, 0 - 1, 1, 30}
VisiblePositions == {[x |-> 0, y |-> 0], [x |-> 2, y |-> 1]}

AdvanceBytes(bytes) ==
    /\ Running
    /\ Commit(advance_bytes(Grid, bytes), "advance_bytes", bytes.n)
    /\ UNCHANGED cacheVars

Resize(new_size) ==
    /\ Running
    /\ Commit(resize(Grid, new_size, overflow_checks), "resize", new_size)
    /\ UNCHANGED cacheVars

PressKey(mapped) ==
    /\ Running
    /\ Commit(press_key(Grid, mapped), "press_key", IF mapped THEN 1 ELSE 0)
    /\ UNCHANGED cacheVars

Paste ==
    /\ Running
    /\ Commit(paste(Grid), "paste", 0)
    /\ UNCHANGED cacheVars

Scroll(delta) ==
    /\ Running
    /\ Commit(scroll(Grid, delta, overflow_checks), "scroll", delta)
    /\ UNCHANGED cacheVars

StartSelection(pos) ==
    /\ Running
    /\ Commit(start_selection(Grid, pos), "start_selection", pos)
    /\ UNCHANGED cacheVars

MoveSelection(pos) ==
    /\ Running
    /\ Commit(move_selection(Grid, pos), "move_selection", pos)
    /\ UNCHANGED cacheVars

EndSelection ==
    /\ Running
    /\ Commit(end_selection(Grid), "end_selection", 0)
    /\ UNCHANGED cacheVars

Cache ==
    [row_cache_start |-> row_cache_start, cache_rows |-> cache_rows,
     visible_cache_range |-> visible_cache_range]

Update ==
    /\ ~aborted
    /\ LET r == update(Cache, Grid, overflow_checks)
       IN  /\ aborted' = r.panicked
           /\ row_cache_start' = r.cache.row_cache_start
           /\ cache_rows' = r.cache.cache_rows
           /\ visible_cache_range' = r.cache.visible_cache_range
    /\ last_call' = Call("update", 0)
    /\ UNCHANGED <<overflow_checks, scrollback_size, gridVars, probe>>

NoProbe ==
    [state |-> "none", step |-> "None", start |-> NoPos, end |-> NoPos, pos |-> NoPos,
     wezterm |-> FALSE, terminal |-> FALSE]

\* WeztermGrid::new and WeztermPreRenderer::new
New(capacity) ==
    /\ probe = NoProbe
    /\ overflow_checks \in BOOLEAN
    /\ scrollback_size = capacity
    /\ aborted = FALSE
    /\ lines = [i \in 1..DefaultRows |-> BlankLine(0)]
    /\ physical_rows = DefaultRows
    /\ physical_cols = DefaultCols
    /\ stable_row_index_offset = 0
    /\ seqno = 0
    /\ scroll_offset = 0
    /\ size = [rows |-> DefaultRows, cols |-> DefaultCols]
    /\ selection = SelectionState_new
    /\ row_cache_start = 0
    /\ cache_rows = <<>>
    /\ visible_cache_range = [start |-> 0, end |-> 0]
    /\ last_call = [op |-> "new", arg |-> 0, repeated |-> FALSE, pre_step |-> "None",
                    pre_offset |-> 0, pre_min |-> 0, pre_max |-> 0,
                    pre_rows |-> DefaultRows, pre_end |-> DefaultRows]

Init == New(ScrollbackSize)

Next ==
    \/ \E bytes \in Outputs : AdvanceBytes(bytes)
    \/ \E new_size \in Sizes : Resize(new_size)
    \/ \E mapped \in BOOLEAN : PressKey(mapped)
    \/ Paste
    \/ \E delta \in Deltas : Scroll(delta)
    \/ \E pos \in VisiblePositions : StartSelection(pos)
    \/ \E pos \in VisiblePositions : MoveSelection(pos)
    \/ EndSelection

Spec == Init /\ [][Next]_vars

\* The pre-renderer's ring over a scrollback deeper than the cache, with
\* output and scrolling that move the view by more rows than the cache holds.
CacheOutputs == [kind : {"text"}, n : {60, 110}, width : {TextWidth}]
CacheSizes == {[rows |-> DefaultRows - 2, cols |-> DefaultCols]}
CacheDeltas == {0 - 110, 110}

InitCache == New(CacheScrollbackSize)

NextCache ==
    \/ \E bytes \in CacheOutputs : AdvanceBytes(bytes)
    \/ \E new_size \in CacheSizes : Resize(new_size)
    \/ \E delta \in CacheDeltas : Scroll(delta)
    \/ Update

SpecCache == InitCache /\ [][NextCache]_vars

\* The grid together with the pre-renderer where the selection is rendered:
\* text in the bottom rows of the window and a pointer that moves over them.
RenderOutputs == [kind : {"text"}, n : {0, 2}, width : {TextWidth}]
RenderSizes == {[rows |-> DefaultRows - 1, cols |-> DefaultCols]}
RenderDeltas == {0 - 1, 1}
RenderPositions == {[x |-> 1, y |-> DefaultRows - 2], [x |-> 0, y |-> DefaultRows - 1]}

NextRender ==
    \/ \E bytes \in RenderOutputs : AdvanceBytes(bytes)
    \/ \E new_size \in RenderSizes : Resize(new_size)
    \/ \E delta \in RenderDeltas : Scroll(delta)
    \/ \E pos \in RenderPositions : StartSelection(pos)
    \/ \E pos \in RenderPositions : MoveSelection(pos)
    \/ EndSelection
    \/ Update

SpecRender == Init /\ [][NextRender]_vars

\* A view that walks forward through the history one row per frame: output
\* and scrolling back happen before the first update; from then on every
\* update follows a scroll by one row toward newer content.
ForwardOutputs == [kind : {"text"}, n : {110}, width : {TextWidth}]
\* rows one scroll request goes back toward older content before the walk
ForwardRewindDelta == 110
ForwardStepDelta == 0 - 1

ForwardOutput(bytes) == cache_rows = <<>> /\ AdvanceBytes(bytes)
ForwardRewind == cache_rows = <<>> /\ Scroll(ForwardRewindDelta)
ForwardStep == last_call.op = "update" /\ Scroll(ForwardStepDelta)
ForwardUpdate == last_call.op # "update" /\ Update

NextForward ==
    \/ \E bytes \in ForwardOutputs : ForwardOutput(bytes)
    \/ ForwardRewind
    \/ ForwardStep
    \/ ForwardUpdate

SpecForward == InitCache /\ [][NextForward]_vars

\* A view that walks through the history in both directions, one row per
\* frame: the forward walk, and, once the ring is full, steps back toward
\* older content that take the view out of the ring at its front.
\* rows one scroll request goes back toward older content during the walk
WalkBackDelta == 1
WalkBack ==
    /\ last_call.op = "update"
    /\ Len(cache_rows) = MaxCacheSize
    /\ Scroll(WalkBackDelta)

NextWalk ==
    \/ \E bytes \in ForwardOutputs : ForwardOutput(bytes)
    \/ ForwardRewind
    \/ ForwardStep
    \/ WalkBack
    \/ ForwardUpdate

SpecWalk == InitCache /\ [][NextWalk]_vars

\* The grid where text is selected and copied: output of blank and of full
\* rows, some of it more than the terminal retains, a view scrolled to both
\* ends of the history, and a pointer at the top and the bottom of the window.
\* rows of one long output: as many as the grid retains
TextRows == 27
TextOutputs == [kind : {"text"}, n : {5, TextRows}, width : {0, DefaultCols}]
TextDeltas == {0 - 1, 30}
TextPositions ==
    {[x |-> 1, y |-> 0], [x |-> 0, y |-> 3], [x |-> 0, y |-> DefaultRows - 1]}

NextText ==
    \/ \E bytes \in TextOutputs : AdvanceBytes(bytes)
    \/ \E delta \in TextDeltas : Scroll(delta)
    \/ \E pos \in TextPositions : StartSelection(pos)
    \/ \E pos \in TextPositions : MoveSelection(pos)
    \/ EndSelection

SpecText == Init /\ [][NextText]_vars

\* The selection predicate on its own: a selection state and a position are
\* drawn, and the predicate of the wezterm backend (get_selection, then
\* is_selected) and the one of the older widget are applied to them.
ProbePositions == [x : 0..ProbeMaxX, y : 0..ProbeMaxY]

ProbeInputs ==
    [state : {"input"}, step : {"None", "Selecting", "Selected"},
     start : ProbePositions, end : ProbePositions, pos : ProbePositions,
     wezterm : {FALSE}, terminal : {FALSE}]

\* the SelectionState of the wezterm backend that holds the drawn positions
ProbeState(p, s, e) ==
    [step |-> p.step, start |-> s, end |-> e, scroll_offset |-> 0]

InitSelection ==
    /\ probe \in ProbeInputs
    /\ overflow_checks \in BOOLEAN
    /\ scrollback_size = ScrollbackSize
    /\ aborted = FALSE
    /\ lines = [i \in 1..DefaultRows |-> BlankLine(0)]
    /\ physical_rows = DefaultRows
    /\ physical_cols = DefaultCols
    /\ stable_row_index_offset = 0
    /\ seqno = 0
    /\ scroll_offset = 0
    /\ size = [rows |-> DefaultRows, cols |-> DefaultCols]
    /\ selection = SelectionState_new
    /\ row_cache_start = 0
    /\ cache_rows = <<>>
    /\ visible_cache_range = [start |-> 0, end |-> 0]
    /\ last_call = [op |-> "new", arg |-> 0, repeated |-> FALSE, pre_step |-> "None",
                    pre_offset |-> 0, pre_min |-> 0, pre_max |-> 0,
                    pre_rows |-> DefaultRows, pre_end |-> DefaultRows]

IsSelected ==
    /\ probe.state = "input"
    /\ probe' = [probe EXCEPT
           !.state = "done",
           !.wezterm = is_selected(get_selection(ProbeState(probe, probe.start, probe.end)),
                                   probe.pos),
           !.terminal = is_position_selected(ProbeState(probe, probe.start, probe.end),
                                             probe.pos)]
    /\ UNCHANGED <<overflow_checks, aborted, scrollback_size, gridVars, cacheVars, last_call>>

NextSelection == IsSelected

SpecSelection == InitSelection /\ [][NextSelection]_vars

\* The span builder on its own: a row of cells, each with default or other
\* attributes, a selection and the row's index are drawn, and the cell loop
\* of update is applied to them.
SpanAttrs == {"default", "bold"}
SpanRows == UNION {[1..n -> SpanAttrs] : n \in 0..MaxSpanCells}

SpanInputs ==
    [state : {"input"}, step : {"None", "Selected"},
     start : ProbePositions, end : ProbePositions, index : 0..ProbeMaxY,
     cells : SpanRows, spans : {<<>>}]

InitSpans ==
    /\ probe \in SpanInputs
    /\ overflow_checks \in BOOLEAN
    /\ scrollback_size = ScrollbackSize
    /\ aborted = FALSE
    /\ lines = [i \in 1..DefaultRows |-> BlankLine(0)]
    /\ physical_rows = DefaultRows
    /\ physical_cols = DefaultCols
    /\ stable_row_index_offset = 0
    /\ seqno = 0
    /\ scroll_offset = 0
    /\ size = [rows |-> DefaultRows, cols |-> DefaultCols]
    /\ selection = SelectionState_new
    /\ row_cache_start = 0
    /\ cache_rows = <<>>
    /\ visible_cache_range = [start |-> 0, end |-> 0]
    /\ last_call = [op |-> "new", arg |-> 0, repeated |-> FALSE, pre_step |-> "None",
                    pre_offset |-> 0, pre_min |-> 0, pre_max |-> 0,
                    pre_rows |-> DefaultRows, pre_end |-> DefaultRows]

\* the selection update resolves before the row loop
SpanSelection == get_selection(ProbeState(probe, probe.start, probe.end))

BuildSpans ==
    /\ probe.state = "input"
    /\ probe' = [probe EXCEPT
           !.state = "done",
           !.spans = row_spans(probe.cells, probe.index, SpanSelection)]
    /\ UNCHANGED <<overflow_checks, aborted, scrollback_size, gridVars, cacheVars, last_call>>

NextSpans == BuildSpans

SpecSpans == InitSpans /\ [][NextSpans]_vars

\* The Terminal widget of terminal.rs: output that rewrites some of the
\* visible rows or scrolls a row in, scrolling, key presses, and a pointer
\* that selects forward and backward. Its Resize message is left out: the
\* widget keeps the rows it was built with.
WidgetPositions == {[x |-> 1, y |-> 0], [x |-> 0, y |-> 1], [x |-> 1, y |-> 2]}
WidgetRewrites == (SUBSET (1..WidgetRows)) \ {{}}
WidgetScrolls == {0 - 1, 1}

InitTerminal ==
    /\ probe = Terminal_new(WidgetRows)
    /\ overflow_checks \in BOOLEAN
    /\ scrollback_size = ScrollbackSize
    /\ aborted = FALSE
    /\ lines = [i \in 1..DefaultRows |-> BlankLine(0)]
    /\ physical_rows = DefaultRows
    /\ physical_cols = DefaultCols
    /\ stable_row_index_offset = 0
    /\ seqno = 0
    /\ scroll_offset = 0
    /\ size = [rows |-> DefaultRows, cols |-> DefaultCols]
    /\ selection = SelectionState_new
    /\ row_cache_start = 0
    /\ cache_rows = <<>>
    /\ visible_cache_range = [start |-> 0, end |-> 0]
    /\ last_call = [op |-> "new", arg |-> 0, repeated |-> FALSE, pre_step |-> "None",
                    pre_offset |-> 0, pre_min |-> 0, pre_max |-> 0,
                    pre_rows |-> DefaultRows, pre_end |-> DefaultRows]

TerminalRunning == probe.seqno < WidgetMaxSeqno

TerminalStep(w, op) ==
    /\ probe' = [w EXCEPT !.op = op]
    /\ UNCHANGED <<overflow_checks, aborted, scrollback_size, gridVars, cacheVars, last_call>>

\* Terminal::advance_bytes with output that rewrites the visible rows in
\* `touched` (counted from the top of the screen's last rows)
TerminalRewrite(touched) ==
    /\ TerminalRunning
    /\ LET sq == probe.seqno + 1
           base == Len(probe.lines) - probe.rows
           w == [probe EXCEPT
                    !.seqno = sq,
                    !.lines = [i \in 1..Len(probe.lines) |->
                                  IF (i - base) \in touched
                                  THEN Line(sq, WidgetCols, FALSE)
                                  ELSE probe.lines[i]]]
       IN  TerminalStep(update_formatted_rows(w, FALSE), "advance_bytes")

\* Terminal::advance_bytes with output that scrolls one row of text in
TerminalNewline ==
    /\ TerminalRunning
    /\ Len(probe.lines) < probe.rows + WidgetScrollback
    /\ LET sq == probe.seqno + 1
           w == [probe EXCEPT !.seqno = sq,
                              !.lines = Append(@, Line(sq, WidgetCols, FALSE))]
       IN  TerminalStep(update_formatted_rows(w, FALSE), "advance_bytes")

\* Terminal::update, Message::KeyPress with a key that transform_key maps
TerminalKeyPress ==
    /\ TerminalRunning
    /\ TerminalStep(update_formatted_rows([probe EXCEPT !.scroll_pos = 0], FALSE),
                    "key_press")

\* Terminal::update, Message::Scrolled
TerminalScrolled(y) ==
    /\ TerminalRunning
    /\ LET w == [probe EXCEPT !.scroll_pos = IF y >= 0 THEN @ + y
                                             ELSE SaturatingSub(@, 0 - y)]
       IN  TerminalStep(update_formatted_rows(w, probe.selection_state.step = "Selecting"),
                        "scrolled")

\* Terminal::update, Message::StartSelection
TerminalStartSelection(position) ==
    /\ TerminalRunning
    /\ LET w == [probe EXCEPT !.selection_state =
                     SelectionState_start(@, pos_conversion(probe, position))]
       IN  TerminalStep(update_formatted_rows(w, TRUE), "start_selection")

\* Terminal::update, Message::MoveSelection
TerminalMoveSelection(position) ==
    /\ TerminalRunning
    /\ LET w == [probe EXCEPT !.selection_state =
                     move_mouse(@, pos_conversion(probe, position))]
       IN  TerminalStep(update_formatted_rows(w, TRUE), "move_selection")

\* Terminal::update, Message::EndSelection
TerminalEndSelection ==
    /\ TerminalRunning
    /\ TerminalStep(update_formatted_rows(
                        [probe EXCEPT !.selection_state = stop(@)], TRUE),
                    "end_selection")

NextTerminal ==
    \/ \E touched \in WidgetRewrites : TerminalRewrite(touched)
    \/ TerminalNewline
    \/ TerminalKeyPress
    \/ \E y \in WidgetScrolls : TerminalScrolled(y)
    \/ \E position \in WidgetPositions : TerminalStartSelection(position)
    \/ \E position \in WidgetPositions : TerminalMoveSelection(position)
    \/ TerminalEndSelection

SpecTerminal == InitTerminal /\ [][NextTerminal]_vars

\* ------------------------------------------------------------ the claims
Clamp(v, lo, hi) == Max(Min(v, hi), lo)
Pinned == scroll_offset = max_scroll
Did(op) == last_call.op = op /\ ~aborted

\* C1: after any sequence of calls min_scroll() <= scroll_offset <=
\* max_scroll(), where max_scroll is the end of the newest absolute row minus
\* the visible row count, floored at 0, and min_scroll is the oldest absolute
\* row still retained.
C1_ScrollWithinBounds ==
    /\ min_scroll <= scroll_offset
    /\ scroll_offset <= max_scroll
    /\ max_scroll = Max(stable_row_index_offset + Len(lines) - physical_rows, 0)
    /\ min_scroll = stable_row_index_offset

\* C1 witness: a scroll request below the oldest retained row was clamped to it
C1_Witness ==
    /\ Did("scroll")
    /\ last_call.pre_offset - last_call.arg < min_scroll
    /\ 0 < min_scroll
    /\ scroll_offset = min_scroll

\* C2 as claimed: after every update call the ring holds at most
\* max_cache_size entries, whatever visible ranges were requested.
C2_CacheWithinMaxSize ==
    Did("update") => Len(cache_rows) <= MaxCacheSize

VisibleLines == screen_lines(Grid, scroll_offset, scroll_offset + physical_rows)

\* C3: after every update call the ring's entries stand for the contiguous
\* absolute rows [row_cache_start, row_cache_start + cache_rows.len()), one
\* entry per row (an entry holds what was rendered for its own row), and that
\* range contains the visible range [scroll_offset, scroll_offset + physical_rows).
C3_CacheCoversVisibleRange ==
    Did("update") =>
        /\ row_cache_start <= scroll_offset
        /\ scroll_offset + physical_rows <= row_cache_start + Len(cache_rows)
        /\ visible_cache_range = [start |-> scroll_offset - row_cache_start,
                                  end |-> scroll_offset + physical_rows - row_cache_start]
        /\ \A i \in 1..Len(cache_rows) :
               cache_rows[i].cached.some =>
                   cache_rows[i].cached.row = row_cache_start + i - 1

\* C3 witness: the ring is full, its base has advanced, and it still holds a
\* row rendered by an earlier update outside the visible range
C3_Witness ==
    /\ Did("update")
    /\ row_cache_start > 0
    /\ Len(cache_rows) = MaxCacheSize
    /\ \E i \in 1..Len(cache_rows) :
           /\ cache_rows[i].cached.some
           /\ row_cache_start + i - 1 < scroll_offset

\* the cells of absolute row `index` the cache shows highlighted
HighlightedCells(index) ==
    LET entry == cache_rows[index - row_cache_start + 1]
    IN  IF entry.cached.some THEN entry.cached.selected ELSE {}

\* the cells of a line at absolute row `index` the selection holds now
SelectedCells(line, index) ==
    {x \in 0..(line.ncells - 1) :
        is_selected(get_selection(selection), [x |-> x, y |-> index])}

\* C4: after update, every visible row's cached rendering reflects the
\* current selection: a cell is rendered highlighted if and only if the
\* selection predicate holds for it now.
C4_RenderedSelectionIsCurrent ==
    Did("update") =>
        \A offset \in 0..(Len(VisibleLines) - 1) :
            HighlightedCells(scroll_offset + offset)
                = SelectedCells(VisibleLines[offset + 1], scroll_offset + offset)

\* C4 witness: a row rendered again after the selection on it changed, part
\* of its cells highlighted
C4_Witness ==
    /\ Did("update")
    /\ \E offset \in 0..(Len(VisibleLines) - 1) :
           LET index == scroll_offset + offset
               entry == cache_rows[index - row_cache_start + 1]
           IN  /\ entry.cached.some
               /\ entry.cached.selected # {}
               /\ entry.cached.selected # 0..(entry.cached.line.ncells - 1)
               /\ entry.renders >= 2

\* C5 as claimed: for every signed delta, scroll(delta) completes and leaves
\* scroll_offset within [min_scroll(), max_scroll()].
C5_ScrollCompletesInBounds ==
    last_call.op = "scroll" =>
        ~aborted /\ min_scroll <= scroll_offset /\ scroll_offset <= max_scroll

\* C6 as claimed: scroll(delta) sets scroll_offset to old scroll_offset - delta
\* clamped to [min_scroll(), max_scroll()], update_scroll(target) (reached
\* through press_key with target max_scroll()) sets it to the clamped target,
\* and neither changes the row count or the content extent.
C6_ScrollSetsClampedOffset ==
    /\ Did("scroll") =>
           /\ scroll_offset = Clamp(last_call.pre_offset - last_call.arg, min_scroll, max_scroll)
           /\ physical_rows = last_call.pre_rows
           /\ stable_row_index_offset + Len(lines) = last_call.pre_end
    /\ (Did("press_key") /\ last_call.arg = 1) =>
           /\ scroll_offset = Clamp(last_call.pre_max, min_scroll, max_scroll)
           /\ physical_rows = last_call.pre_rows
           /\ stable_row_index_offset + Len(lines) = last_call.pre_end

\* C7 as claimed: a positive delta moves scroll_offset toward newer content:
\* the offset does not decrease, and increases whenever it was below max_scroll.
C7_PositiveDeltaTowardNewer ==
    (Did("scroll") /\ last_call.arg > 0) =>
        /\ scroll_offset >= last_call.pre_offset
        /\ (last_call.pre_offset < last_call.pre_max => scroll_offset > last_call.pre_offset)

\* C7 as amended: a positive delta moves scroll_offset toward older content:
\* the offset does not increase, and decreases whenever it was above min_scroll.
C7_PositiveDeltaTowardOlder ==
    (Did("scroll") /\ last_call.arg > 0) =>
        /\ scroll_offset <= last_call.pre_offset
        /\ (last_call.pre_offset > last_call.pre_min => scroll_offset < last_call.pre_offset)

\* C7 witness: a positive delta lowered the offset
C7_Witness ==
    Did("scroll") /\ last_call.arg > 0 /\ scroll_offset < last_call.pre_offset

\* C8: if scroll_offset = max_scroll() before advance_bytes then
\* scroll_offset = max_scroll() of the grown grid after it.
C8_AutoFollow ==
    (Did("advance_bytes") /\ last_call.pre_offset = last_call.pre_max) => Pinned

\* C8 witness: pinned output that moved the newest position
C8_Witness ==
    /\ Did("advance_bytes")
    /\ last_call.pre_offset = last_call.pre_max
    /\ max_scroll > last_call.pre_max
    /\ last_call.arg > 1

\* C9 as claimed: if scroll_offset # max_scroll() before advance_bytes then
\* scroll_offset is the same after it.
C9_UnpinnedOffsetUnchanged ==
    (Did("advance_bytes") /\ last_call.pre_offset # last_call.pre_max) =>
        scroll_offset = last_call.pre_offset

\* C9 as amended: if scroll_offset # max_scroll() before advance_bytes then
\* afterwards it is the old offset clamped to the new bounds: unchanged while
\* the row it names is still retained, else the oldest retained row.
C9_UnpinnedOffsetClamped ==
    (Did("advance_bytes") /\ last_call.pre_offset # last_call.pre_max) =>
        /\ scroll_offset = Clamp(last_call.pre_offset, min_scroll, max_scroll)
        /\ (last_call.pre_offset >= min_scroll => scroll_offset = last_call.pre_offset)

\* C9 witness: output arrived while scrolled up and the offset stayed
C9_Witness ==
    /\ Did("advance_bytes")
    /\ last_call.pre_offset # last_call.pre_max
    /\ last_call.arg > 0
    /\ scroll_offset = last_call.pre_offset
    /\ scroll_offset < max_scroll

\* C10 as claimed: from scroll_offset = max_scroll(), every resize leaves
\* scroll_offset = max_scroll().
C10_ResizeKeepsPin ==
    (Did("resize") /\ last_call.pre_offset = last_call.pre_max) => Pinned

\* C11 as claimed: if scroll_offset # max_scroll() before resize and the old
\* offset lies within the new [min_scroll(), max_scroll()], the resize leaves
\* scroll_offset unchanged.
C11_UnpinnedResizeKeepsOffset ==
    (/\ Did("resize")
     /\ last_call.pre_offset # last_call.pre_max
     /\ min_scroll <= last_call.pre_offset
     /\ last_call.pre_offset <= max_scroll) =>
        scroll_offset = last_call.pre_offset

\* C13 as claimed: resize returns for every size from every reachable state,
\* also when the rows grow by more than the current scroll_offset, and
\* leaves the offset within [min_scroll(), max_scroll()].
C13_ResizeNeverAborts ==
    last_call.op = "resize" =>
        ~aborted /\ min_scroll <= scroll_offset /\ scroll_offset <= max_scroll

\* C12: a resize that repeats the resize just made, with the same size,
\* returns and leaves scroll_offset, size and the selection state as they
\* were; it invalidates no line: the lines keep their sequence numbers and
\* the terminal's sequence number advances by the terminal's own resize
\* step only, not by a second step of invalidate_lines.
C12_RepeatedResizeIsNoOp ==
    [][(/\ last_call.op = "resize" /\ ~aborted
        /\ last_call'.op = "resize"
        /\ last_call'.arg = last_call.arg) =>
           /\ ~aborted'
           /\ scroll_offset' = scroll_offset
           /\ size' = size
           /\ selection' = selection
           /\ lines' = lines
           /\ seqno' = seqno + 1]_vars

\* C12 witness: the second of two equal resizes, made while a selection is
\* being dragged and the view is scrolled up
C12_Witness ==
    /\ Did("resize")
    /\ last_call.repeated
    /\ selection.step = "Selecting"

\* C14 as claimed: update returns for every reachable grid state.
C14_UpdateNeverAborts ==
    last_call.op = "update" => ~aborted

\* C15 as claimed: while the visible range advances by one row per update
\* call, for any number of calls and any history length, the ring never
\* holds more than max_cache_size entries.
C15_ForwardScrollWithinMaxSize ==
    ~aborted => Len(cache_rows) <= MaxCacheSize

\* the ring's entry of absolute row `index`
Entry(index) == cache_rows[index - row_cache_start + 1]

\* C16: update leaves untouched every visible row whose sequence number in
\* the grid equals its entry's last_update_seqno, and an update that follows
\* an update with no grid call in between (same range, no sequence number
\* changed) writes no entry at all.
C16_UnchangedRowsNotRendered ==
    [][/\ (last_call'.op = "update" /\ ~aborted') =>
              \A offset \in 0..(Len(VisibleLines) - 1) :
                  LET index == scroll_offset + offset
                      old == index - row_cache_start + 1
                      new == index - row_cache_start' + 1
                  IN  (/\ old >= 1 /\ old <= Len(cache_rows)
                       /\ cache_rows[old].last_update_seqno = VisibleLines[offset + 1].seqno) =>
                          /\ new >= 1 /\ new <= Len(cache_rows')
                          /\ cache_rows'[new] = cache_rows[old]
       /\ (last_call.op = "update" /\ ~aborted /\ last_call'.op = "update") =>
              /\ cache_rows' = cache_rows
              /\ row_cache_start' = row_cache_start
              /\ visible_cache_range' = visible_cache_range]_vars

\* C16 witness: a second update over the same range, over rows that hold
\* rendered text, one of them rendered more often than another
C16_Witness ==
    /\ Did("update")
    /\ last_call.repeated
    /\ \E a, b \in 0..(Len(VisibleLines) - 1) :
           /\ Entry(scroll_offset + a).cached.some
           /\ Entry(scroll_offset + a).renders = 1
           /\ Entry(scroll_offset + b).renders >= 2

\* C17: after update returns, every row of the visible range the grid
\* returned has an entry whose last_update_seqno is the row's current_seqno,
\* and an entry written for a newer sequence number was built as a whole from
\* the row as it is: its paragraph is the one of this row's line, or None
\* for a line without cells.
C17_EntriesMatchRowSeqno ==
    Did("update") =>
        \A offset \in 0..(Len(VisibleLines) - 1) :
            LET index == scroll_offset + offset
                line == VisibleLines[offset + 1]
                entry == Entry(index)
            IN  /\ entry.last_update_seqno = line.seqno
                /\ line.seqno > 0 =>
                       /\ entry.renders >= 1
                       /\ entry.cached.some = (line.ncells > 0)
                       /\ entry.cached.some =>
                              entry.cached.line = line /\ entry.cached.row = index

\* C17 witness: a row whose text changed after it had been rendered, rendered
\* again from the new text
C17_Witness ==
    /\ Did("update")
    /\ \E offset \in 0..(Len(VisibleLines) - 1) :
           LET entry == Entry(scroll_offset + offset)
           IN  /\ entry.renders >= 2
               /\ entry.cached.some
               /\ entry.cached.line = VisibleLines[offset + 1]
               /\ entry.last_update_seqno = seqno

\* C18: visible_rows() yields one item per row of the visible range of the
\* most recent update, in ascending row order: right after the update the
\* i-th item is the entry of absolute row scroll_offset + i, and there are
\* as many items as visible rows; calls on the grid made since then leave
\* the cache alone, so the same items, each the paragraph of its own
\* absolute row, are yielded until the next update.
C18_VisibleRowsOfLastUpdate ==
    (~aborted /\ cache_rows # <<>>) =>
        LET rows == visible_rows(Cache)
            base == row_cache_start + visible_cache_range.start
        IN  /\ ~rows.panicked
            /\ Len(rows.items) = visible_cache_range.end - visible_cache_range.start
            /\ \A i \in 1..Len(rows.items) :
                   /\ rows.items[i] = Entry(base + i - 1).cached
                   /\ rows.items[i].some => rows.items[i].row = base + i - 1
            /\ Did("update") =>
                   /\ base = scroll_offset
                   /\ Len(rows.items) = physical_rows

\* C18 witness: the view was scrolled after the update; visible_rows still
\* yields the rows of the update, rendered text among them
C18_Witness ==
    /\ Did("scroll")
    /\ cache_rows # <<>>
    /\ scroll_offset # row_cache_start + visible_cache_range.start
    /\ row_cache_start + visible_cache_range.start > 0
    /\ \E i \in 1..Len(visible_rows(Cache).items) : visible_rows(Cache).items[i].some

\* C19 as claimed: pointer-up (end_selection) in Active (Selecting) with start
\* s and end e, e resolved to an absolute position, moves to Committed
\* (Selected) {s, e} if s # e and to Idle (None) if s = e.
C19_FinishCommitsOrClears ==
    [][(last_call'.op = "end_selection" /\ selection.step = "Selecting") =>
           LET s == selection.start
               e == from_visible(selection.end, selection.scroll_offset)
           IN  IF s # e
               THEN /\ selection'.step = "Selected"
                    /\ selection'.start = s
                    /\ selection'.end = e
               ELSE selection'.step = "None"]_vars

\* C20: a pointer-up that finds the selection as pointer-down left it (no
\* pointer-move since) ends in Idle: no cell is selected,
\* currently_selecting() is false and selected_text() returns None.
C20_ClickLeavesIdle ==
    (Did("end_selection") /\ last_call.pre_step = "Starting") =>
        /\ selection.step = "None"
        /\ ~get_selection(selection).some
        /\ \A x \in 0..(DefaultCols - 1), y \in min_scroll..(max_scroll + physical_rows - 1) :
               ~is_selected(get_selection(selection), [x |-> x, y |-> y])
        /\ ~currently_selecting(Grid)
        /\ ~selected_text(Grid).some

\* C20 witness: pointer-down and pointer-up with no move, on a grid whose
\* terminal has changed since construction
C20_Witness ==
    /\ Did("end_selection")
    /\ last_call.pre_step = "Starting"
    /\ selection.step = "None"
    /\ seqno > 0

\* C21: a pointer-move to Q in Starting(P) yields Active (Selecting) with
\* start P and end Q, and in Active{s, e} yields Active{s, Q}: the move
\* replaces the end and never changes the start anchor.
C21_MoveReplacesEndOnly ==
    [][(last_call'.op = "move_selection" /\ is_active(selection)) =>
           /\ selection'.step = "Selecting"
           /\ selection'.start = selection.start
           /\ selection'.end = last_call'.arg
           /\ selection'.scroll_offset = selection.scroll_offset]_vars

\* C21 witness: a drag whose end moved to another row than the anchor's
\* while the selection was already Active
C21_Witness ==
    /\ Did("move_selection")
    /\ last_call.pre_step = "Selecting"
    /\ selection.step = "Selecting"
    /\ selection.end = last_call.arg
    /\ from_visible(selection.end, selection.scroll_offset).y # selection.start.y

\* the positions of the retained rows, in the columns text can reach and the
\* one after them
GridPositions ==
    [x : 0..TextWidth, y : min_scroll..(max_scroll + physical_rows - 1)]

\* C22: a pointer-down at viewport position P in Committed (Selected) {s, e}
\* or Idle (None) moves to Starting(P resolved with the grid's current scroll
\* offset), after which no cell is selected; from Committed the range it
\* reports covers every row from min(s.y, e.y) to max(s.y, e.y) and
\* invalidate_lines runs once, from Idle it reports nothing and no line is
\* invalidated.
C22_PointerDownClearsAndReports ==
    [][(last_call'.op = "start_selection" /\ selection.step \in {"Selected", "None"}) =>
           LET r == start(selection, last_call'.arg)
           IN  /\ selection'.step = "Starting"
               /\ selection'.start = from_visible(last_call'.arg, scroll_offset)
               /\ ~get_selection(selection').some
               /\ \A pos \in GridPositions : ~is_selected(get_selection(selection'), pos)
               /\ IF selection.step = "Selected"
                  THEN /\ r.invalidate.some
                       /\ r.invalidate.start <= Min(selection.start.y, selection.end.y)
                       /\ r.invalidate.end > Max(selection.start.y, selection.end.y)
                       /\ seqno' = seqno + 1
                  ELSE /\ ~r.invalidate.some
                       /\ seqno' = seqno
                       /\ lines' = lines]_vars

\* C22 witness: a pointer-down over a committed selection, whose rows were
\* invalidated by it
C22_Witness ==
    /\ Did("start_selection")
    /\ last_call.pre_step = "Selected"
    /\ selection.step = "Starting"
    /\ scroll_offset > 0
    /\ \E i \in 1..Len(lines) : lines[i].seqno = seqno

\* C23: while the selection is Active (Selecting), a change of the scroll
\* offset from o to o' keeps the start anchor and the stored viewport end,
\* and the end resolves to absolute row (stored viewport row + o'): its row
\* shifts by o' - o and its column stays.
C23_ActiveEndFollowsScroll ==
    [][(/\ selection.step = "Selecting"
        /\ selection'.step = "Selecting"
        /\ scroll_offset' # scroll_offset) =>
           LET old_end == from_visible(selection.end, selection.scroll_offset)
               new_end == from_visible(selection'.end, selection'.scroll_offset)
           IN  /\ selection'.start = selection.start
               /\ selection'.end = selection.end
               /\ new_end = [x |-> selection.end.x, y |-> selection.end.y + scroll_offset']
               /\ new_end.y - old_end.y = scroll_offset' - scroll_offset
               /\ get_selection(selection') = Selection_new(selection.start, new_end)]_vars

\* C23 witness: the view was scrolled during a drag
C23_Witness ==
    /\ Did("scroll")
    /\ last_call.pre_step = "Selecting"
    /\ selection.step = "Selecting"
    /\ scroll_offset # last_call.pre_offset

\* the calls that move the view or change the screen without touching the
\* selection's steps
ViewCalls == {"scroll", "resize", "advance_bytes", "press_key"}

\* C24: once the selection is Committed (Selected), scroll, resize and
\* advance_bytes (and a key press, which scrolls to the newest row) leave
\* the set of absolute positions reported as selected unchanged; in Starting
\* and Active they leave the start anchor where pointer-down put it.
C24_CommittedSelectionIsFixed ==
    [][(last_call'.op \in ViewCalls) =>
           /\ selection.step = "Selected" =>
                  /\ selection'.step = "Selected"
                  /\ get_selection(selection') = get_selection(selection)
                  /\ LET first == Min(min_scroll, min_scroll')
                         last == Max(max_scroll + physical_rows, max_scroll' + physical_rows')
                         old == get_selection(selection)
                         new == get_selection(selection')
                     IN  \A x \in 0..TextWidth, y \in first..last :
                             is_selected(new, [x |-> x, y |-> y])
                                 = is_selected(old, [x |-> x, y |-> y])
           /\ is_active(selection) =>
                  /\ selection'.step = selection.step
                  /\ selection'.start = selection.start]_vars

\* C24 witness: output that trimmed the scrollback and moved the view
\* arrived over a committed selection
C24_Witness ==
    /\ Did("advance_bytes")
    /\ selection.step = "Selected"
    /\ scroll_offset # last_call.pre_offset
    /\ stable_row_index_offset > 0
    /\ selection.start # selection.end

\* a position comes before another in (y, x) order
Before(a, b) == a.y < b.y \/ (a.y = b.y /\ a.x <= b.x)

\* what C25 says the predicate is for a selection from s to e
SelectedAsSpecified(s, e, pos) ==
    LET lo == IF Before(s, e) THEN s ELSE e
        hi == IF Before(s, e) THEN e ELSE s
    IN  /\ lo.y <= pos.y /\ pos.y <= hi.y
        /\ (lo.y = hi.y) => (lo.x <= pos.x /\ pos.x <= hi.x)
        /\ (lo.y < hi.y /\ pos.y = lo.y) => pos.x >= lo.x
        /\ (lo.y < hi.y /\ pos.y = hi.y) => pos.x <= hi.x

\* C25: for every selection (start, end) and every position, the selection
\* predicate is true exactly when, start and end ordered by (y, x), the
\* position's row lies between their rows and its column is at or after
\* start.x on the first row and at or before end.x on the last (both on a
\* single-row selection); with no selection it is false for every position.
C25_PredicateAsSpecified ==
    probe.state = "done" =>
        LET expected == /\ probe.step # "None"
                        /\ SelectedAsSpecified(probe.start, probe.end, probe.pos)
        IN  probe.wezterm = expected /\ probe.terminal = expected

\* C25 witness: a position on the last row of a selection over several rows
\* that was given end first
C25_Witness ==
    /\ probe.state = "done"
    /\ probe.step = "Selected"
    /\ probe.start.y > probe.end.y
    /\ probe.pos.y = probe.start.y
    /\ probe.pos.x = probe.start.x
    /\ probe.wezterm

\* C26: for all start, end and pos the selection predicate gives the same
\* result for the selection (start, end) as for the selection (end, start).
C26_PredicateSymmetric ==
    probe.state = "done" =>
        /\ probe.wezterm
               = is_selected(get_selection(ProbeState(probe, probe.end, probe.start)), probe.pos)
        /\ probe.terminal
               = is_position_selected(ProbeState(probe, probe.end, probe.start), probe.pos)

\* C26 witness: a selected position of a selection whose start comes after
\* its end on the same row
C26_Witness ==
    /\ probe.state = "done"
    /\ probe.step = "Selecting"
    /\ probe.start.y = probe.end.y
    /\ probe.start.x > probe.end.x
    /\ probe.pos.y = probe.start.y
    /\ probe.pos.x < probe.start.x
    /\ probe.wezterm

\* the rows a selection state has cells selected on
SelectedRows(sel) ==
    IF get_selection(sel).some
    THEN get_selection(sel).start.y..get_selection(sel).end.y
    ELSE {}

\* the range a transition of the selection returns to the grid: the one of
\* move_end or start for a pointer call, the one of set_scroll (called by
\* update_scroll with the new offset) for a call that moves the view
Reported ==
    CASE last_call'.op = "move_selection" -> move_end(selection, last_call'.arg).invalidate
      [] last_call'.op = "start_selection" -> start(selection, last_call'.arg).invalidate
      [] OTHER -> set_scroll(selection, scroll_offset').invalidate

SelectionTransitions == ViewCalls \cup {"move_selection", "start_selection"}

\* C27 as claimed: every selection transition that changes which rows are
\* selected returns a row range that covers all rows of the selection
\* before it and all rows of the selection after it.
C27_ReportedRangeCoversOldAndNew ==
    [][(/\ last_call'.op \in SelectionTransitions
        /\ ~aborted'
        /\ SelectedRows(selection) # SelectedRows(selection')) =>
           /\ Reported.some
           /\ \A y \in SelectedRows(selection) \cup SelectedRows(selection') :
                  Reported.start <= y /\ y < Reported.end]_vars

\* C27 as amended: every selection transition returns a row range that
\* covers every row on which the selected cells differ between the selection
\* before it and the selection after it.
C27_ReportedRangeCoversChangedRows ==
    [][(last_call'.op \in SelectionTransitions /\ ~aborted') =>
           LET old == get_selection(selection)
               new == get_selection(selection')
               rows == SelectedRows(selection) \cup SelectedRows(selection')
           IN  \A y \in rows :
                   (\E x \in 0..TextWidth :
                        is_selected(old, [x |-> x, y |-> y])
                            # is_selected(new, [x |-> x, y |-> y])) =>
                       /\ Reported.some
                       /\ Reported.start <= y /\ y < Reported.end]_vars

\* C27 witness: the end of a selection over several rows was moved; a row
\* that stays selected was not invalidated by the move
C27_Witness ==
    /\ Did("move_selection")
    /\ last_call.pre_step = "Selecting"
    /\ \E i \in 1..Len(lines) :
           /\ (stable_row_index_offset + i - 1) \in SelectedRows(selection)
           /\ lines[i].seqno < seqno
    /\ \E i \in 1..Len(lines) :
           /\ (stable_row_index_offset + i - 1) \in SelectedRows(selection)
           /\ lines[i].seqno = seqno

\* the absolute row of the i-th retained line
RowOf(i) == stable_row_index_offset + i - 1

\* the rows of the current selection the grid still holds
HeldRows ==
    {y \in SelectedRows(selection) :
        stable_row_index_offset <= y /\ y < stable_row_index_offset + Len(lines)}

\* the columns of the cells of retained row y that the selection holds
SelectedColumns(y) ==
    {x \in 0..(lines[y - stable_row_index_offset + 1].ncells - 1) :
        is_selected(get_selection(selection), [x |-> x, y |-> y])}

\* selected_text returned (it did not panic on the way)
TextReturned == ~(overflow_checks /\ selected_text(Grid).overflowed)

\* C28 as claimed: selected_text visits every absolute row from start.y to
\* end.y that the grid still holds, in ascending order, and appends exactly
\* the cells of that row the selection predicate accepts; also when the
\* oldest retained row is above 0 and when the selection lies in rows
\* numbered at or above the count of retained rows.
C28_TextVisitsSelectedRows ==
    (~aborted /\ get_selection(selection).some) =>
        LET rows == clipboard(Grid)
        IN  /\ TextReturned
            /\ Len(rows) = Cardinality(HeldRows)
            /\ \A i \in 1..Len(rows) :
                   /\ rows[i].row \in HeldRows
                   /\ i > 1 => rows[i].row = rows[i - 1].row + 1
                   /\ rows[i].phys + stable_row_index_offset = rows[i].row
                   /\ rows[i].cells = SelectedColumns(rows[i].row)

\* no retained row of the selection has a selected cell with text
NoSelectedText == \A y \in HeldRows : SelectedColumns(y) = {}

\* C29 as claimed: selected_text returns None when there is no selection,
\* returns None when the selected cells contain no text, and never returns
\* Some of an empty string.
C29_NoTextIsNone ==
    ~aborted =>
        /\ (~get_selection(selection).some \/ NoSelectedText) =>
               (TextReturned /\ ~selected_text(Grid).some)
        /\ (TextReturned /\ selected_text(Grid).some) =>
               /\ selected_text(Grid).text # <<>>
               /\ \A i \in {1, Len(selected_text(Grid).text)} :
                      selected_text(Grid).text[i] # {}

\* every cell of the grid holds text
GridFull == \A i \in 1..Len(lines) : lines[i].ncells = physical_cols

\* a committed selection over more than one row, all of them retained
SelectedAcrossRows ==
    /\ ~aborted
    /\ selection.step = "Selected"
    /\ get_selection(selection).start.y < get_selection(selection).end.y
    /\ HeldRows = SelectedRows(selection)

\* C30 as claimed: on a grid whose every cell holds the same character, a
\* committed selection from (c1, r1) to (c2, r2) with r1 < r2 yields
\* r2 - r1 + 1 lines: the first with the cells from c1 to the last column,
\* the interior ones with every column, the last with the cells 0..c2, and
\* no blank line after it.
C30_FullGridText ==
    (GridFull /\ SelectedAcrossRows) =>
        LET sel == get_selection(selection)
            text == selected_text(Grid)
        IN  /\ TextReturned
            /\ text.some
            /\ Len(text.text) = sel.end.y - sel.start.y + 1
            /\ \A i \in 1..Len(text.text) :
                   text.text[i] =
                       {x \in 0..(physical_cols - 1) :
                           /\ i = 1 => x >= sel.start.x
                           /\ i = Len(text.text) => x <= sel.end.x}

\* the lines selected_text collected, without the trailing ones that hold
\* no selected cell
WithoutTrailingBlankLines(rows) ==
    LET filled == {i \in 1..Len(rows) : rows[i].cells # {}}
    IN  IF filled = {} THEN <<>>
        ELSE SubSeq(rows, 1, CHOOSE i \in filled : \A j \in filled : i >= j)

\* C31 as claimed: the text selected_text returns is the per-row selected
\* text joined by line breaks with the trailing blank lines removed and
\* nothing else: the leading blank lines of the selection are kept.
C31_OnlyTrailingBlankLinesRemoved ==
    (~aborted /\ get_selection(selection).some /\ TextReturned) =>
        LET expected == WithoutTrailingBlankLines(clipboard(Grid))
            text == selected_text(Grid)
        IN  /\ text.some = (expected # <<>>)
            /\ text.some => text.text = [i \in 1..Len(expected) |-> expected[i].cells]

\* the rows on which some cell is selected in one of the two selection
\* states and not in the other
ChangedRows(old, new) ==
    {y \in SelectedRows(old) \cup SelectedRows(new) :
        \E x \in 0..TextWidth :
            is_selected(get_selection(old), [x |-> x, y |-> y])
                # is_selected(get_selection(new), [x |-> x, y |-> y])}

\* a call of the selection state returned a range that holds every row
\* whose cells changed; None only when none changed
CoversChange(old, r) ==
    \A y \in ChangedRows(old, r.state) :
        r.invalidate.some /\ r.invalidate.start <= y /\ y < r.invalidate.end

\* C35: in every state the grid reaches, move_end and start with any pointer
\* position and set_scroll with any offset the grid may pass return a range
\* that contains every row with a cell whose selected status differs
\* between the state before and the state after the call, and return None
\* only when no cell's status differs.
C35_ReturnedRangeHoldsEveryChange ==
    /\ \A pos \in VisiblePositions :
           /\ CoversChange(selection, move_end(selection, pos))
           /\ CoversChange(selection, start(selection, pos))
    /\ \A offset \in min_scroll..max_scroll :
           CoversChange(selection, set_scroll(selection, offset))

\* C35 witness: a scroll moved the end of an active selection, and the rows
\* set_scroll returned were invalidated
C35_Witness ==
    /\ Did("scroll")
    /\ last_call.pre_step = "Selecting"
    /\ selection.step = "Selecting"
    /\ last_call.pre_offset # scroll_offset
    /\ \E i \in 1..Len(lines) : lines[i].seqno = seqno /\ lines[i].seqno > 0
    /\ \E offset \in min_scroll..max_scroll :
           ChangedRows(selection, set_scroll(selection, offset).state) # {}

\* C36: in every reachable grid state the scroll offset stored in the
\* selection state equals the grid's scroll offset.
C36_SelectionOffsetIsGridOffset == selection.scroll_offset = scroll_offset

\* C36 witness: the view was moved off row 0 while a selection was active
C36_Witness ==
    /\ ~aborted
    /\ last_call.op \in ViewCalls
    /\ last_call.pre_offset # scroll_offset
    /\ scroll_offset > 0
    /\ selection.step = "Selecting"
    /\ selection.scroll_offset = scroll_offset

\* C37: finish never changes the set of selected cells: the selection
\* resolved from the state before end_selection equals the one resolved
\* from the state after it, and no line is invalidated.
C37_FinishKeepsSelectedCells ==
    [][last_call'.op = "end_selection" =>
           /\ get_selection(selection') = get_selection(selection)
           /\ lines' = lines
           /\ seqno' = seqno]_vars

\* C37 witness: an active selection in a scrolled view was committed
C37_Witness ==
    /\ Did("end_selection")
    /\ last_call.pre_step = "Selecting"
    /\ selection.step = "Selected"
    /\ scroll_offset > 0
    /\ get_selection(selection).start # get_selection(selection).end

\* C38: after press_key with a key that maps to a terminal key code the
\* scroll offset equals max_scroll() whatever it was before; a key without
\* a mapping leaves the scroll offset and the selection state unchanged.
C38_KeySnapsToNewest ==
    [][(last_call'.op = "press_key" /\ ~aborted') =>
           IF last_call'.arg = 1
           THEN scroll_offset' = max_scroll'
           ELSE scroll_offset' = scroll_offset /\ selection' = selection]_vars

\* C38 witness: a mapped key was pressed in a view scrolled back from the
\* newest row
C38_Witness ==
    /\ Did("press_key")
    /\ last_call.arg = 1
    /\ last_call.pre_offset < last_call.pre_max
    /\ scroll_offset = max_scroll
    /\ scroll_offset > min_scroll

\* C39: start_selection, move_selection, end_selection and paste never
\* change the scroll offset or the terminal size; move_selection and
\* end_selection in Idle or Committed leave the selection state unchanged
\* and invalidate no line.
C39_PointerCallsKeepView ==
    [][last_call'.op \in {"start_selection", "move_selection", "end_selection", "paste"} =>
           /\ scroll_offset' = scroll_offset
           /\ size' = size
           /\ physical_rows' = physical_rows
           /\ physical_cols' = physical_cols
           /\ (/\ last_call'.op \in {"move_selection", "end_selection"}
               /\ selection.step \in {"None", "Selected"}) =>
                  /\ selection' = selection
                  /\ lines' = lines
                  /\ seqno' = seqno]_vars

\* C39 witness: the pointer was moved over a committed selection in a
\* scrolled view
C39_Witness ==
    /\ Did("move_selection")
    /\ last_call.pre_step = "Selected"
    /\ selection.step = "Selected"
    /\ scroll_offset > 0
    /\ last_call.arg # [x |-> selection.end.x, y |-> selection.end.y - scroll_offset]

\* C33: an update that returns removes entries only from the end of the
\* ring farther from the visible range (none at the back when it grows at
\* the back, none at the front when it grows at the front), every entry it
\* retains stands after it for the absolute row it stood for before, and
\* the entry at ring index i caches absolute row row_cache_start + i.
C33_EvictionKeepsRows ==
    [][(last_call'.op = "update" /\ ~aborted') =>
           LET old_end == row_cache_start + Len(cache_rows)
               new_end == row_cache_start' + Len(cache_rows')
           IN  /\ scroll_offset + physical_rows > old_end => old_end <= new_end
               /\ scroll_offset < row_cache_start => row_cache_start' <= row_cache_start
               /\ \A i \in 1..Len(cache_rows) :
                      LET row == row_cache_start + i - 1
                      IN  (row_cache_start' <= row /\ row < new_end) =>
                              \/ cache_rows'[row - row_cache_start' + 1] = cache_rows[i]
                              \/ cache_rows'[row - row_cache_start' + 1].renders
                                     = cache_rows[i].renders + 1
               /\ \A i \in 1..Len(cache_rows') :
                      cache_rows'[i].cached.some =>
                          cache_rows'[i].cached.row = row_cache_start' + i - 1]_vars

\* C33 witness: the ring is full and has given up rows at its front, the
\* visible range lies at its back end, and its first entry still holds the
\* paragraph of its own row
C33_Witness ==
    /\ Did("update")
    /\ row_cache_start > 0
    /\ Len(cache_rows) = MaxCacheSize
    /\ scroll_offset + physical_rows = row_cache_start + Len(cache_rows)
    /\ cache_rows[1].cached.some
    /\ cache_rows[1].cached.row = row_cache_start

\* cell x of the drawn row is selected
SpanCellSelected(x) == is_selected(SpanSelection, [x |-> x, y |-> probe.index])

\* the texts of the spans one after the other
RECURSIVE SpanTexts(_)
SpanTexts(spans) ==
    IF spans = <<>> THEN <<>> ELSE spans[1].text \o SpanTexts(Tail(spans))

\* C34: when a row is rendered, every span holds consecutive cells with the
\* same attributes and the same selection membership, which are the span's
\* own; two adjacent cells that differ in either are in different spans;
\* and the span texts one after the other are the row's cell texts from
\* left to right.
C34_SpansSplitOnAttrsAndSelection ==
    probe.state = "done" =>
        /\ \A k \in 1..Len(probe.spans) :
               LET span == probe.spans[k]
               IN  /\ span.text # <<>>
                   /\ \A j \in 1..Len(span.text) :
                          /\ j > 1 => span.text[j] = span.text[j - 1] + 1
                          /\ probe.cells[span.text[j] + 1] = span.attributes
                          /\ SpanCellSelected(span.text[j]) = span.selected
        /\ \A x \in 0..(Len(probe.cells) - 2) :
               (\/ probe.cells[x + 1] # probe.cells[x + 2]
                \/ SpanCellSelected(x) # SpanCellSelected(x + 1)) =>
                   ~\E k \in 1..Len(probe.spans) :
                        \E i, j \in 1..Len(probe.spans[k].text) :
                            /\ probe.spans[k].text[i] = x
                            /\ probe.spans[k].text[j] = x + 1
        /\ SpanTexts(probe.spans) = [x \in 1..Len(probe.cells) |-> x - 1]

\* C34 witness: a row of cells with the same attributes, the selection ends
\* inside it, and the row came out as two spans
C34_Witness ==
    /\ probe.state = "done"
    /\ Len(probe.cells) = MaxSpanCells
    /\ \A x \in 1..Len(probe.cells) : probe.cells[x] = probe.cells[1]
    /\ SpanCellSelected(0)
    /\ ~SpanCellSelected(Len(probe.cells) - 1)
    /\ Len(probe.spans) = 2

\* the positions of the widget's screen the selection state holds: the
\* cells the widget renders as highlighted
WidgetHighlighted ==
    {pos \in [x : 0..(WidgetCols - 1), y : 0..(Len(probe.lines) - 1)] :
        /\ pos.x < probe.lines[pos.y + 1].ncells
        /\ is_position_selected(probe.selection_state, pos)}

\* C32 as claimed: in the Terminal widget, for every selection, dragged
\* forward or backward, get_selected_text returns exactly the characters at
\* the positions for which is_position_selected is true.
C32_CopiedIsHighlighted ==
    probe.selection_state.step # "None" =>
        /\ get_selected_text(probe).some
        /\ get_selected_text(probe).positions = WidgetHighlighted

\* C40 as claimed: in update_formatted_rows every row that is rendered has
\* its cells tested for selection at its own absolute line, the first
\* visible row plus the row's place in the viewport, and comes out with
\* the cells highlighted that the selection holds on that line, whichever
\* other visible rows were cache hits and skipped in the same pass.
C40_RowsTestedAtOwnLine ==
    \A k \in probe.rendered :
        LET own == probe.first_row_scrollback_pos + k - 1
        IN  /\ probe.formatted_rows[k].line = own
            /\ probe.formatted_rows[k].selected =
                   {x \in 0..(probe.lines[own + 1].ncells - 1) :
                       is_position_selected(probe.selection_state, [x |-> x, y |-> own])}

====
